---- MODULE Spec2Model ----
(***************************************************************************)
(* Model of the docbuilder package: the offset-tracking batch builder      *)
(* (utils.py BatchRequestBuilder) and the table population of the client   *)
(* (docs_client.py insert_table_from_dataframe and                         *)
(* replace_text_with_table_from_dataframe), the functions that take a     *)
(* range (RequestBuilder and the client's format_text, format_paragraph,   *)
(* delete_content) and the serialization of the style objects (styles.py). *)
(*                                                                         *)
(* A text is a sequence of characters.  The characters stand for the       *)
(* classes the code distinguishes:                                         *)
(*   "a" "b"  ordinary characters of the Basic Multilingual Plane          *)
(*   "W"      one code point outside the BMP: len() counts it as 1, the    *)
(*            document service as 2 UTF-16 code units                      *)
(*   "c"      a control character of the class clean_text removes          *)
(*   " " "\r" "\n"  whitespace, which str.strip() removes at both ends     *)
(***************************************************************************)
EXTENDS Integers, Sequences, FiniteSets, TLC

None == "None"

(***************************************************************************)
(* Bounds                                                                  *)
(***************************************************************************)
MaxRequests == 3
MaxTableDim == 2
MaxCols == 2
MaxDataRows == 1
MaxCells == 4

(***************************************************************************)
(* Text helpers                                                            *)
(***************************************************************************)
\* Python len(): the number of code points
PyLen(text) == Len(text)

\* what the document service counts: UTF-16 code units
RECURSIVE Utf16Len(_)
Utf16Len(text) ==
    IF text = <<>> THEN 0
    ELSE (IF Head(text) = "W" THEN 2 ELSE 1) + Utf16Len(Tail(text))

IsSpace(ch) == ch \in {" ", "\r", "\n"}

RECURSIVE LStrip(_)
LStrip(text) ==
    IF text = <<>> THEN <<>>
    ELSE IF IsSpace(Head(text)) THEN LStrip(Tail(text)) ELSE text

RECURSIVE RStrip(_)
RStrip(text) ==
    IF text = <<>> THEN <<>>
    ELSE IF IsSpace(text[Len(text)]) THEN RStrip(SubSeq(text, 1, Len(text) - 1))
    ELSE text

\* str.strip()
Strip(text) == RStrip(LStrip(text))

\* text.replace('\r\n', '\n')
RECURSIVE ReplaceCRLF(_)
ReplaceCRLF(text) ==
    IF text = <<>> THEN <<>>
    ELSE IF Len(text) >= 2 /\ text[1] = "\r" /\ text[2] = "\n"
         THEN <<"\n">> \o ReplaceCRLF(SubSeq(text, 3, Len(text)))
         ELSE <<Head(text)>> \o ReplaceCRLF(Tail(text))

\* text.replace('\r', '\n')
ReplaceCR(text) == [i \in 1..Len(text) |-> IF text[i] = "\r" THEN "\n" ELSE text[i]]

\* re.sub(r'[\x00-\x08\x0b\x0c\x0e-\x1f\x7f]', '', text)
RemoveControl(text) == SelectSeq(text, LAMBDA ch : ch # "c")

clean_text(text) == RemoveControl(ReplaceCR(ReplaceCRLF(text)))

(***************************************************************************)
(* RequestBuilder: one wire operation per call                             *)
(***************************************************************************)
\* the text_style argument is accepted and not used
RB_insert_text(text, location_index, text_style) ==
    [op |-> "insertText", index |-> location_index, text |-> text]

RB_update_text_style(start_index, end_index, text_style) ==
    [op |-> "updateTextStyle", startIndex |-> start_index, endIndex |-> end_index,
     textStyle |-> text_style]

RB_update_paragraph_style(start_index, end_index, paragraph_style) ==
    [op |-> "updateParagraphStyle", startIndex |-> start_index, endIndex |-> end_index,
     paragraphStyle |-> paragraph_style]

\* mutant of RB_insert_table: rows and columns change places
RB_insert_table_transposed(location_index, rows, columns) ==
    [op |-> "insertTable", index |-> location_index, rows |-> columns, columns |-> rows]

RB_insert_table(location_index, rows, columns) ==
    [op |-> "insertTable", index |-> location_index, rows |-> rows, columns |-> columns]

RB_insert_page_break(location_index) ==
    [op |-> "insertPageBreak", index |-> location_index]

RB_delete_content(start_index, end_index) ==
    [op |-> "deleteContentRange", startIndex |-> start_index, endIndex |-> end_index]

RB_create_named_range(name, start_index, end_index) ==
    [op |-> "createNamedRange", name |-> name,
     startIndex |-> start_index, endIndex |-> end_index]

\* mutant of validate_index_range: only the start is looked at
validate_index_range_start_only(start_index, end_index) ==
    IF start_index < 1 THEN "Start index must be >= 1" ELSE None

\* validate_index_range: the message of the ValueError it raises, None when it
\* returns
validate_index_range(start_index, end_index) ==
    IF start_index < 1 THEN "Start index must be >= 1"
    ELSE IF end_index <= start_index THEN "End index must be > start index"
    ELSE None

(***************************************************************************)
(* BatchRequestBuilder.  A builder value b is [requests, current_index].   *)
(***************************************************************************)
FreshBuilder == [requests |-> <<>>, current_index |-> 1]

B_insert_text(b, text, text_style) ==
    [requests |-> Append(b.requests, RB_insert_text(text, b.current_index, text_style)),
     current_index |-> b.current_index + PyLen(text)]

\* mutant of B_paragraph_style: the range leaves the paragraph break out of its start
B_paragraph_style_short(b, text, paragraph_style) ==
    IF paragraph_style # None
    THEN LET end_index == b.current_index
             start_index == end_index - PyLen(text)
         IN [b EXCEPT !.requests =
                Append(@, RB_update_paragraph_style(start_index, end_index, paragraph_style))]
    ELSE b

B_paragraph_style(b, text, paragraph_style) ==
    IF paragraph_style # None
    THEN LET end_index == b.current_index
             start_index == end_index - PyLen(text) - 1
         IN [b EXCEPT !.requests =
                Append(@, RB_update_paragraph_style(start_index, end_index, paragraph_style))]
    ELSE b

B_insert_paragraph(b, text, text_style, paragraph_style) ==
    LET b1 == IF text # <<>> THEN B_insert_text(b, text, text_style) ELSE b
        b2 == B_insert_text(b1, <<"\n">>, None)
    IN B_paragraph_style(b2, text, paragraph_style)

\* mutant of TableAdvance: the cells are counted and the table's own unit is not
TableAdvance_cells_only(rows, columns) == rows * columns * 2

TableAdvance(rows, columns) == (rows * columns * 2) + 1

B_insert_table(b, rows, columns) ==
    [requests |-> Append(b.requests, RB_insert_table(b.current_index, rows, columns)),
     current_index |-> b.current_index + TableAdvance(rows, columns)]

PageBreakAdvance == 1

B_insert_page_break(b) ==
    [requests |-> Append(b.requests, RB_insert_page_break(b.current_index)),
     current_index |-> b.current_index + PageBreakAdvance]

\* mutant of B_get_requests: the builder's own list is returned
B_get_requests_own(b) == [ref |-> "own", list |-> <<>>]

\* get_requests returns a copy: a new list object with the same items
B_get_requests(b) == [ref |-> "copy", list |-> b.requests]

B_clear(b) == [requests |-> <<>>, current_index |-> 1]

(***************************************************************************)
(* Table population (docs_client.py).                                      *)
(* A dataset df is [columns, rows]; a fetched document is [content], a     *)
(* sequence of elements [kind, startIndex, endIndex, elements, tableRows]; *)
(* a table cell is [content], a sequence of [kind, startIndex].            *)
(***************************************************************************)
\* stands for None where the code expects an index
NoIndex == 0 - 1

\* mutant of df_empty: only a dataset without columns counts as empty
df_empty_no_columns(df) == Len(df.columns) = 0

\* DataFrame.empty: some axis has length 0
df_empty(df) == Len(df.rows) = 0 \/ Len(df.columns) = 0

\* data = [list(df.columns)] + df.astype(str).values.tolist()
DataOf(df) == <<df.columns>> \o df.rows

\* the start of the first paragraph of a cell's content, 0 when it has none
RECURSIVE FirstParagraphStart(_)
FirstParagraphStart(cell_content) ==
    IF cell_content = <<>> THEN 0
    ELSE IF Head(cell_content).kind = "paragraph" THEN Head(cell_content).startIndex
    ELSE FirstParagraphStart(Tail(cell_content))

\* the inner loop over one row of the dataset: the entries of the cells
\* 0 .. columns-1 that the reported row has, with text and paragraph
RECURSIVE CollectRow(_, _, _, _)
CollectRow(row_data, table_cells, row_idx, col_idx) ==
    IF col_idx >= Len(row_data) \/ col_idx >= Len(table_cells) THEN <<>>
    ELSE LET text == Strip(row_data[col_idx + 1])
             para_start == FirstParagraphStart(table_cells[col_idx + 1].content)
             rest == CollectRow(row_data, table_cells, row_idx, col_idx + 1)
         IN IF text = <<>> \/ para_start = 0 THEN rest
            ELSE <<[text |-> clean_text(text), start_index |-> para_start,
                    is_header |-> (row_idx = 0),
                    row_idx |-> row_idx, col_idx |-> col_idx]>> \o rest

\* mutant of CollectRows: the loop ends after the header row
CollectRows_header_only(data, table_rows, row_idx) ==
    IF row_idx >= 1 \/ row_idx >= Len(table_rows) THEN <<>>
    ELSE CollectRow(data[row_idx + 1], table_rows[row_idx + 1].tableCells, row_idx, 0)

\* the outer loop over the rows of the dataset
RECURSIVE CollectRows(_, _, _)
CollectRows(data, table_rows, row_idx) ==
    IF row_idx >= Len(data) \/ row_idx >= Len(table_rows) THEN <<>>
    ELSE CollectRow(data[row_idx + 1], table_rows[row_idx + 1].tableCells, row_idx, 0)
         \o CollectRows(data, table_rows, row_idx + 1)

\* the value the loop variable row_idx is left with when the outer loop ends
FinalRowIdx(data, table_rows) ==
    IF Len(table_rows) < Len(data) THEN Len(table_rows) ELSE Len(data) - 1

\* the value the loop variable col_idx is left with: that of the inner loop of the
\* last row the outer loop entered
FinalColIdx(data, table_rows) ==
    LET entered == IF Len(table_rows) < Len(data) THEN Len(table_rows) ELSE Len(data)
    IN IF entered = 0 THEN 0
       ELSE LET row_data == data[entered]
                table_cells == table_rows[entered].tableCells
            IN IF Len(table_cells) < Len(row_data) THEN Len(table_cells)
               ELSE Len(row_data) - 1

\* mutant of SortByStartIndex: the entries stay in the order they were collected in
SortByStartIndex_unsorted(entries) == entries

\* list.sort(key=lambda x: x["start_index"]): ascending and stable
RECURSIVE InsertSorted(_, _)
InsertSorted(sorted, entry) ==
    IF sorted = <<>> THEN <<entry>>
    ELSE IF sorted[Len(sorted)].start_index <= entry.start_index
         THEN Append(sorted, entry)
         ELSE Append(InsertSorted(SubSeq(sorted, 1, Len(sorted) - 1), entry),
                     sorted[Len(sorted)])

RECURSIVE SortByStartIndex(_)
SortByStartIndex(entries) ==
    IF entries = <<>> THEN <<>>
    ELSE InsertSorted(SortByStartIndex(SubSeq(entries, 1, Len(entries) - 1)),
                      entries[Len(entries)])

InsertTextRequest(start_index, text) ==
    [op |-> "insertText", index |-> start_index, text |-> text]

TextStyleRequest(start_index, end_index, style) ==
    [op |-> "updateTextStyle", startIndex |-> start_index, endIndex |-> end_index,
     textStyle |-> style]

TableCellStyleRequest(table_start_index, row_idx, col_idx, table_cell_style) ==
    [op |-> "updateTableCellStyle", tableStartLocation |-> table_start_index,
     rowIndex |-> row_idx, columnIndex |-> col_idx, rowSpan |-> 1, columnSpan |-> 1,
     tableCellStyle |-> table_cell_style]

\* mutant of OffsetStep: the running offset never grows
OffsetStep_none(text) == 0

\* the amount the running offset grows by after an entry
OffsetStep(text) == PyLen(text)

\* the cell a table cell style request of insert_table_from_dataframe addresses:
\* the loop variables row_idx and col_idx, as the collecting loops left them
InsertCellAddress(entry, final_row_idx, final_col_idx) ==
    [row_idx |-> final_row_idx, col_idx |-> final_col_idx]

\* the cell a table cell style request of replace_text_with_table_from_dataframe
\* addresses: the row_idx and col_idx stored in the entry
ReplaceCellAddress(entry, final_row_idx, final_col_idx) ==
    [row_idx |-> entry.row_idx, col_idx |-> entry.col_idx]

CellAddress(fn, entry, final_row_idx, final_col_idx) ==
    IF fn = "insert" THEN InsertCellAddress(entry, final_row_idx, final_col_idx)
    ELSE ReplaceCellAddress(entry, final_row_idx, final_col_idx)

\* the loop over the sorted entries; acc is [offset, requests, text_style_requests,
\* table_cell_style_requests]
RECURSIVE EmitLoop(_, _, _, _)
EmitLoop(entries, i, acc, env) ==
    IF i > Len(entries) THEN acc
    ELSE LET entry == entries[i]
             text == entry.text
             start_index == entry.start_index + acc.offset
             end_index == start_index + PyLen(text)
             style == IF entry.is_header THEN env.header_style ELSE env.cell_style
             addr == CellAddress(env.fn, entry, env.row_idx, env.col_idx)
         IN EmitLoop(entries, i + 1,
              [offset |-> acc.offset + OffsetStep(text),
               requests |-> Append(acc.requests, InsertTextRequest(start_index, text)),
               text_style_requests |->
                   IF style # None
                   THEN Append(acc.text_style_requests,
                               TextStyleRequest(start_index, end_index, style))
                   ELSE acc.text_style_requests,
               table_cell_style_requests |->
                   IF env.table_cell_style # None /\ env.table_start_index # NoIndex
                   THEN Append(acc.table_cell_style_requests,
                               TableCellStyleRequest(env.table_start_index, addr.row_idx,
                                                     addr.col_idx, env.table_cell_style))
                   ELSE acc.table_cell_style_requests],
              env)

EmptyAcc == [offset |-> 0, requests |-> <<>>, text_style_requests |-> <<>>,
             table_cell_style_requests |-> <<>>]

\* mutant of CombineRequests: the text styles come before the inserts
CombineRequests_styles_first(acc) ==
    acc.text_style_requests \o acc.requests \o acc.table_cell_style_requests

\* all_requests = requests + text_style_requests + table_cell_style_requests
CombineRequests(acc) ==
    acc.requests \o acc.text_style_requests \o acc.table_cell_style_requests

\* steps 3 and 4 of both functions, from the located table to all_requests:
\* [entries (sorted), all_requests]
Populate(fn, df, table_element, table_start_index, header_style, cell_style, table_cell_style) ==
    LET data == DataOf(df)
        table_rows == table_element.tableRows
        inserted_texts == SortByStartIndex(CollectRows(data, table_rows, 0))
        env == [fn |-> fn, header_style |-> header_style, cell_style |-> cell_style,
                table_cell_style |-> table_cell_style,
                table_start_index |-> table_start_index,
                row_idx |-> FinalRowIdx(data, table_rows),
                col_idx |-> FinalColIdx(data, table_rows)]
        acc == EmitLoop(inserted_texts, 1, EmptyAcc, env)
    IN [entries |-> inserted_texts, acc |-> acc, all_requests |-> CombineRequests(acc)]

(***************************************************************************)
(* Fetched documents and the calls to the document service                 *)
(***************************************************************************)
GetCall == [call |-> "get_document", requests |-> <<>>]
UpdateCall(reqs) == [call |-> "update_document", requests |-> reqs]

\* document['body']['content'][-1]['endIndex'] - 1
AppendIndex(document) == document.content[Len(document.content)].endIndex - 1

\* "\n\nTable Data:\n" + df.to_string(index=False); of the pandas rendering only
\* the cell texts, one line per row, are modelled
RECURSIVE JoinTexts(_, _)
JoinTexts(texts, sep) ==
    IF texts = <<>> THEN <<>>
    ELSE IF Len(texts) = 1 THEN texts[1]
    ELSE texts[1] \o sep \o JoinTexts(Tail(texts), sep)

df_to_string(df) ==
    JoinTexts([i \in 1..Len(DataOf(df)) |-> JoinTexts(DataOf(df)[i], <<" ">>)], <<"\n">>)

\* mutant of FallbackText: the heading without the dataset
FallbackText_heading_only(df) == <<"\n", "\n", "T", ":", "\n">>

FallbackText(df) == <<"\n", "\n", "T", ":", "\n">> \o df_to_string(df)

\* GoogleDocsClient.insert_text: the requests it sends
ClientInsertTextRequests(text, index, style) ==
    LET cleaned == clean_text(text)
    IN <<RB_insert_text(cleaned, index, None)>>
       \o (IF style # None
           THEN <<RB_update_text_style(index, index + PyLen(cleaned), style)>>
           ELSE <<>>)

\* the outcomes of append_text after the calls made so far: the fetch fails, or it
\* returns a document and the update fails or succeeds.  [ok, calls]
AppendTextOutcomes(calls, text, documents) ==
    {[ok |-> FALSE, calls |-> Append(calls, GetCall)]}
    \cup {[ok |-> updated,
           calls |-> calls \o <<GetCall,
                                UpdateCall(ClientInsertTextRequests(text, AppendIndex(d), None))>>] :
            d \in documents, updated \in BOOLEAN}

\* the table insert_table_from_dataframe populates: the last table of the document
RECURSIVE LastTable(_, _)
LastTable(content, i) ==
    IF i = 0 THEN [found |-> FALSE, table_element |-> [tableRows |-> <<>>],
                   table_start_index |-> NoIndex]
    ELSE IF content[i].kind = "table"
         THEN [found |-> TRUE, table_element |-> [tableRows |-> content[i].tableRows],
               table_start_index |-> content[i].startIndex]
         ELSE LastTable(content, i - 1)

\* the table replace_text_with_table_from_dataframe populates: of the tables that
\* start at or after placeholder_start the one with the least start, else the last
\* table of the document
TableAfter(content, placeholder_start) ==
    LET tables == SelectSeq(content, LAMBDA e : e.kind = "table")
        after == {i \in 1..Len(tables) : tables[i].startIndex >= placeholder_start}
        \* sorted() is stable: of equal starts the first in document order
        first == CHOOSE i \in after :
                    \A j \in after : \/ tables[i].startIndex < tables[j].startIndex
                                     \/ (tables[i].startIndex = tables[j].startIndex /\ i <= j)
    IN IF after # {}
       THEN [found |-> TRUE, table_element |-> [tableRows |-> tables[first].tableRows],
             table_start_index |-> tables[first].startIndex]
       ELSE IF tables # <<>>
       THEN [found |-> TRUE,
             table_element |-> [tableRows |-> tables[Len(tables)].tableRows],
             table_start_index |-> tables[Len(tables)].startIndex]
       ELSE [found |-> FALSE, table_element |-> [tableRows |-> <<>>],
             table_start_index |-> NoIndex]

\* placeholder in text_run.get('content', '')
Contains(content, sub) ==
    \E i \in 1..(Len(content) - Len(sub) + 1) : SubSeq(content, i, i + Len(sub) - 1) = sub

\* the runs of the paragraphs of a document, in document order
RECURSIVE RunsOf(_)
RunsOf(content) ==
    IF content = <<>> THEN <<>>
    ELSE (IF Head(content).kind = "paragraph" THEN Head(content).elements ELSE <<>>)
         \o RunsOf(Tail(content))

\* the first run that holds the placeholder: [found, placeholder_start, placeholder_end]
FindPlaceholder(document, placeholder) ==
    LET runs == RunsOf(document.content)
        hits == {i \in 1..Len(runs) : Contains(runs[i].content, placeholder)}
        first == CHOOSE i \in hits : \A j \in hits : i <= j
    IN IF hits = {} THEN [found |-> FALSE, placeholder_start |-> NoIndex,
                          placeholder_end |-> NoIndex]
       ELSE [found |-> TRUE, placeholder_start |-> runs[first].startIndex,
             placeholder_end |-> runs[first].endIndex]

(***************************************************************************)
(* The two table functions of the client.  The document service is the     *)
(* environment: every get_document either fails or returns one of a set of *)
(* documents, every update_document fails or succeeds.  An outcome is      *)
(* [status, value, calls, pop]: how the call ended, what it returned, the  *)
(* calls it made to the service in order, and what it computed (pop: the    *)
(* document fetched after the table insert, the table located in it, the   *)
(* sorted entries, the three request lists, the position in calls of the   *)
(* update that carried the batch, whether that update succeeded, and the   *)
(* position in calls of the fetch after the table insert).  A call that    *)
(* raises out of its fallback keeps what it had computed.                  *)
(***************************************************************************)
NoPop == [located |-> FALSE, document |-> [content |-> <<>>], table_rows |-> <<>>,
          table_start_index |-> NoIndex, entries |-> <<>>, acc |-> EmptyAcc,
          all_requests |-> <<>>, batch_call |-> 0, sent |-> FALSE, refetch_call |-> 0]

Raised(error, calls) == [status |-> "raised", value |-> error, calls |-> calls, pop |-> NoPop]
Returned(value, calls, pop) ==
    [status |-> "returned", value |-> value, calls |-> calls, pop |-> pop]

\* append_text as the last thing a call does
FallbackOutcomes(calls, df, documents, value, pop) ==
    {IF o.ok THEN Returned(value, o.calls, pop)
     ELSE [Raised("Exception", o.calls) EXCEPT !.pop = pop] :
        o \in AppendTextOutcomes(calls, FallbackText(df), documents)}

\* the try block that sends the batch, and its except clause
SendOutcomes(calls, df, documents, all_requests, sent_value, fallback_value, pop) ==
    IF all_requests # <<>>
    THEN LET sent == Append(calls, UpdateCall(all_requests))
             tried == [pop EXCEPT !.batch_call = Len(sent)]
         IN {Returned(sent_value, sent, [tried EXCEPT !.sent = TRUE])}
            \cup FallbackOutcomes(sent, df, documents, fallback_value, tried)
    ELSE UNION {IF o.ok THEN {Returned(fallback_value, o.calls, pop)}
                ELSE FallbackOutcomes(o.calls, df, documents, fallback_value, pop) :
                   o \in AppendTextOutcomes(calls, FallbackText(df), documents)}

\* from the fetch after the table insert on
AfterRefetch(a, calls, document, loc, documents, sent_value, fallback_value) ==
    IF ~loc.found
    THEN FallbackOutcomes(calls, a.df, documents, fallback_value,
                          [NoPop EXCEPT !.document = document,
                                        !.refetch_call = Len(calls)])
    ELSE LET p == Populate(a.fn, a.df, loc.table_element, loc.table_start_index,
                           a.header_style, a.cell_style, a.table_cell_style)
             pop == [located |-> TRUE, document |-> document,
                     table_rows |-> loc.table_element.tableRows,
                     table_start_index |-> loc.table_start_index,
                     entries |-> p.entries, acc |-> p.acc,
                     all_requests |-> p.all_requests, batch_call |-> 0, sent |-> FALSE,
                     refetch_call |-> Len(calls)]
         IN SendOutcomes(calls, a.df, documents, p.all_requests, sent_value,
                         fallback_value, pop)

\* mutant of InsertAndRefetch: the document is fetched before the table is inserted
InsertAndRefetch_fetch_first(a, calls, first_requests, placeholder_start, documents, refetched, sent_value, fallback_value) ==
    LET c1 == Append(calls, GetCall)
        c2 == Append(c1, UpdateCall(first_requests))
    IN {Raised("Exception", c1), Raised("Exception", c2)}
       \cup UNION {AfterRefetch(a, c2, d,
                                IF a.fn = "insert" THEN LastTable(d.content, Len(d.content))
                                ELSE TableAfter(d.content, placeholder_start),
                                documents, sent_value, fallback_value) : d \in refetched}

\* the insert of the table structure and the fetch after it
InsertAndRefetch(a, calls, first_requests, placeholder_start, documents, refetched, sent_value, fallback_value) ==
    LET c1 == Append(calls, UpdateCall(first_requests))
        c2 == Append(c1, GetCall)
    IN {Raised("Exception", c1), Raised("Exception", c2)}
       \cup UNION {AfterRefetch(a, c2, d,
                                IF a.fn = "insert" THEN LastTable(d.content, Len(d.content))
                                ELSE TableAfter(d.content, placeholder_start),
                                documents, sent_value, fallback_value) : d \in refetched}

insert_table_from_dataframe(a, first_documents, refetched, documents) ==
    IF df_empty(a.df) THEN {Raised("ValueError", <<>>)}
    ELSE LET data == DataOf(a.df)
             rows == Len(data)
             columns == Len(data[1])
             begun == IF a.index = NoIndex
                      THEN {[ok |-> FALSE, calls |-> <<GetCall>>, index |-> NoIndex]}
                           \cup {[ok |-> TRUE, calls |-> <<GetCall>>,
                                  index |-> AppendIndex(d)] : d \in first_documents}
                      ELSE {[ok |-> TRUE, calls |-> <<>>, index |-> a.index]}
         IN UNION {IF ~b.ok THEN {Raised("Exception", b.calls)}
                   ELSE InsertAndRefetch(a, b.calls,
                                         <<RB_insert_table(b.index, rows, columns)>>,
                                         NoIndex, documents, refetched,
                                         "table_response", "table_response") :
                      b \in begun}

DeleteContentRangeRequest(start_index, end_index) ==
    [op |-> "deleteContentRange", startIndex |-> start_index, endIndex |-> end_index]

replace_text_with_table_from_dataframe(a, first_documents, refetched, documents) ==
    IF df_empty(a.df) THEN {Raised("ValueError", <<>>)}
    ELSE LET data == DataOf(a.df)
             rows == Len(data)
             columns == Len(data[1])
         IN {Raised("Exception", <<GetCall>>)}
            \cup UNION {LET ph == FindPlaceholder(d, a.placeholder)
                        IN IF ~ph.found THEN {Returned("{}", <<GetCall>>, NoPop)}
                           ELSE InsertAndRefetch(a, <<GetCall>>,
                                    <<DeleteContentRangeRequest(ph.placeholder_start,
                                                                ph.placeholder_end),
                                      RB_insert_table(ph.placeholder_start, rows, columns)>>,
                                    ph.placeholder_start, documents, refetched,
                                    "batch_response", "{}") :
                           d \in first_documents}

(***************************************************************************)
(* The client functions that take a range: validate_index_range, then one  *)
(* request built by RequestBuilder, then update_document with that request *)
(***************************************************************************)
\* update_document with a list that is not empty: the service fails or answers
UpdateOutcomes(reqs) ==
    {Raised("Exception", <<UpdateCall(reqs)>>),
     Returned("response", <<UpdateCall(reqs)>>, NoPop)}

format_text(start_index, end_index, style) ==
    IF validate_index_range(start_index, end_index) # None
    THEN {Raised("ValueError", <<>>)}
    ELSE UpdateOutcomes(<<RB_update_text_style(start_index, end_index, style)>>)

format_paragraph(start_index, end_index, style) ==
    IF validate_index_range(start_index, end_index) # None
    THEN {Raised("ValueError", <<>>)}
    ELSE UpdateOutcomes(<<RB_update_paragraph_style(start_index, end_index, style)>>)

delete_content(start_index, end_index) ==
    IF validate_index_range(start_index, end_index) # None
    THEN {Raised("ValueError", <<>>)}
    ELSE UpdateOutcomes(<<RB_delete_content(start_index, end_index)>>)

(***************************************************************************)
(* Style objects (styles.py).  A style is a record of its dataclass fields; *)
(* an Optional field is <<>> when it is None and <<v>> when it is set to v. *)
(* A wire mapping (dict) is a function from its keys to their values.       *)
(***************************************************************************)
Unset == <<>>
IsNotNone(field) == field # Unset
ValueOf(field) == field[1]

EmptyDict == [key \in {} |-> 0]

\* mutant of Put: the key bold is written only when its value is true
Put_bold_when_true(style, cond, key, value) ==
    IF cond /\ (key = "bold" => value) THEN (key :> value) @@ style ELSE style

\* if cond: style[key] = value
Put(style, cond, key, value) ==
    IF cond THEN (key :> value) @@ style ELSE style

Dimension_to_dict(dimension) ==
    [magnitude |-> dimension.magnitude, unit |-> dimension.unit]

Color_to_dict(color) ==
    [color |-> [rgbColor |-> [red |-> color.red, green |-> color.green,
                              blue |-> color.blue]]]

TextStyle_to_dict(self) ==
    LET s1 == Put(EmptyDict, IsNotNone(self.bold), "bold", ValueOf(self.bold))
        s2 == Put(s1, IsNotNone(self.italic), "italic", ValueOf(self.italic))
        s3 == Put(s2, IsNotNone(self.underline), "underline", ValueOf(self.underline))
        s4 == Put(s3, IsNotNone(self.strikethrough), "strikethrough",
                  ValueOf(self.strikethrough))
        s5 == Put(s4, IsNotNone(self.small_caps), "smallCaps", ValueOf(self.small_caps))
        s6 == Put(s5, IsNotNone(self.font_family), "weightedFontFamily",
                  [fontFamily |-> ValueOf(self.font_family), weight |-> 400])
        s7 == Put(s6, IsNotNone(self.font_size), "fontSize",
                  Dimension_to_dict(ValueOf(self.font_size)))
        s8 == Put(s7, IsNotNone(self.foreground_color), "foregroundColor",
                  Color_to_dict(ValueOf(self.foreground_color)))
        s9 == Put(s8, IsNotNone(self.background_color), "backgroundColor",
                  Color_to_dict(ValueOf(self.background_color)))
        s10 == Put(s9, IsNotNone(self.baseline_offset), "baselineOffset",
                   ValueOf(self.baseline_offset).value)
    IN Put(s10, IsNotNone(self.link_url), "link", [url |-> ValueOf(self.link_url)])

ParagraphStyle_to_dict(self) ==
    LET s1 == Put(EmptyDict,
                  IsNotNone(self.namedStyleType)
                      /\ ValueOf(self.namedStyleType).value # "",
                  "namedStyleType", ValueOf(self.namedStyleType).value)
        s2 == Put(s1, IsNotNone(self.alignment), "alignment", ValueOf(self.alignment).value)
        s3 == Put(s2, IsNotNone(self.line_spacing), "lineSpacing",
                  ValueOf(self.line_spacing))
        s4 == Put(s3, IsNotNone(self.direction), "direction", ValueOf(self.direction))
        s5 == Put(s4, IsNotNone(self.spacing_mode), "spacingMode",
                  ValueOf(self.spacing_mode))
        s6 == Put(s5, IsNotNone(self.space_above), "spaceAbove",
                  Dimension_to_dict(ValueOf(self.space_above)))
        s7 == Put(s6, IsNotNone(self.space_below), "spaceBelow",
                  Dimension_to_dict(ValueOf(self.space_below)))
        s8 == Put(s7, IsNotNone(self.indent_first_line), "indentFirstLine",
                  Dimension_to_dict(ValueOf(self.indent_first_line)))
        s9 == Put(s8, IsNotNone(self.indent_start), "indentStart",
                  Dimension_to_dict(ValueOf(self.indent_start)))
        s10 == Put(s9, IsNotNone(self.indent_end), "indentEnd",
                   Dimension_to_dict(ValueOf(self.indent_end)))
        \* the loop over the five borders
        b1 == Put(s10, IsNotNone(self.border_between), "borderBetween",
                  ValueOf(self.border_between))
        b2 == Put(b1, IsNotNone(self.border_top), "borderTop", ValueOf(self.border_top))
        b3 == Put(b2, IsNotNone(self.border_bottom), "borderBottom",
                  ValueOf(self.border_bottom))
        b4 == Put(b3, IsNotNone(self.border_left), "borderLeft", ValueOf(self.border_left))
    IN Put(b4, IsNotNone(self.border_right), "borderRight", ValueOf(self.border_right))

\* bool() of an Optional[Dimension]: a Dimension defines neither __bool__ nor
\* __len__, so every Dimension is true and None is false
Truthy(field) == field # Unset

TableCellStyle_to_dict(self) ==
    LET s1 == Put(EmptyDict, IsNotNone(self.background_color), "backgroundColor",
                  Color_to_dict(ValueOf(self.background_color)))
        \* the loop over the four borders
        b1 == Put(s1, IsNotNone(self.border_left), "borderLeft", ValueOf(self.border_left))
        b2 == Put(b1, IsNotNone(self.border_right), "borderRight",
                  ValueOf(self.border_right))
        b3 == Put(b2, IsNotNone(self.border_top), "borderTop", ValueOf(self.border_top))
        b4 == Put(b3, IsNotNone(self.border_bottom), "borderBottom",
                  ValueOf(self.border_bottom))
        p1 == Put(EmptyDict, IsNotNone(self.padding_left), "paddingLeft",
                  Dimension_to_dict(ValueOf(self.padding_left)))
        p2 == Put(p1, IsNotNone(self.padding_right), "paddingRight",
                  Dimension_to_dict(ValueOf(self.padding_right)))
        p3 == Put(p2, IsNotNone(self.padding_top), "paddingTop",
                  Dimension_to_dict(ValueOf(self.padding_top)))
        padding == Put(p3, IsNotNone(self.padding_bottom), "paddingBottom",
                       Dimension_to_dict(ValueOf(self.padding_bottom)))
        \* style.update(padding)
        s2 == IF \/ Truthy(self.padding_left) \/ Truthy(self.padding_right)
                 \/ Truthy(self.padding_top) \/ Truthy(self.padding_bottom)
              THEN padding @@ b4 ELSE b4
    IN Put(s2, IsNotNone(self.content_alignment), "contentAlignment",
           ValueOf(self.content_alignment).value)

(***************************************************************************)
(* Merging styles (utils.py merge_text_styles, styles.py merge_styles)     *)
(***************************************************************************)
\* TextStyle(): every field None
NewTextStyle ==
    [bold |-> Unset, italic |-> Unset, underline |-> Unset, strikethrough |-> Unset,
     small_caps |-> Unset, font_family |-> Unset, font_size |-> Unset,
     foreground_color |-> Unset, background_color |-> Unset,
     baseline_offset |-> Unset, link_url |-> Unset]

\* the inner loop: every field of style that is not None is set on merged
MergeFields(merged, style) ==
    [field \in DOMAIN merged |->
        IF IsNotNone(style[field]) THEN style[field] ELSE merged[field]]

\* mutant of MergeOne: a field the result already has is kept
MergeOne_first_wins(merged, style) ==
    IF style = Unset THEN merged
    ELSE [field \in DOMAIN merged |->
             IF IsNotNone(merged[field]) THEN merged[field] ELSE ValueOf(style)[field]]

\* one pass of the outer loop; an argument that is None is skipped
MergeOne(merged, style) ==
    IF style = Unset THEN merged ELSE MergeFields(merged, ValueOf(style))

RECURSIVE MergeLoop(_, _, _)
MergeLoop(merged, styles, i) ==
    IF i > Len(styles) THEN merged
    ELSE MergeLoop(MergeOne(merged, styles[i]), styles, i + 1)

\* merge_text_styles(*styles): the style returned, and the arguments as the call
\* leaves them (it writes to the new TextStyle only)
merge_text_styles(styles) ==
    [merged |-> MergeLoop(NewTextStyle, styles, 1), styles |-> styles]

\* merge_styles(*styles) on dicts: merged.update(style) for every style that is
\* not empty
RECURSIVE MergeDicts(_, _, _)
MergeDicts(merged, styles, i) ==
    IF i > Len(styles) THEN merged
    ELSE MergeDicts(IF DOMAIN styles[i] # {} THEN styles[i] @@ merged ELSE merged,
                    styles, i + 1)

merge_styles(styles) ==
    [merged |-> MergeDicts(EmptyDict, styles, 1), styles |-> styles]

(***************************************************************************)
(* elements.py: Table.  A table is [rows, columns], a row is [cells], a    *)
(* sequence of cell texts.                                                 *)
(***************************************************************************)
\* Table.__post_init__
Table_post_init(self) ==
    IF self.rows # <<>> /\ self.columns = 0
    THEN [self EXCEPT !.columns = Len(self.rows[1].cells)]
    ELSE self

\* Table(rows=rows): the dataclass default columns = 0, then __post_init__
NewTable(rows) == Table_post_init([rows |-> rows, columns |-> 0])

Table_add_row(self, row) ==
    LET appended == [self EXCEPT !.rows = Append(@, row)]
    IN IF appended.columns = 0
       THEN [appended EXCEPT !.columns = Len(row.cells)]
       ELSE appended

\* TableRow() with one add_text_cell per text
TextRow(cell_texts) == [cells |-> cell_texts]

Table_create_row(self, cell_texts) == Table_add_row(self, TextRow(cell_texts))

(***************************************************************************)
(* elements.py: the elements' to_request and DocumentBuilder.  An element  *)
(* is a record with its class in kind; a paragraph style is a token that   *)
(* stands for the dict of its to_dict, None when there is none.            *)
(***************************************************************************)
TextRun_to_request(self) ==
    [op |-> "insertText", text |-> self.content, textStyle |-> self.style]

NewParagraph(elements, style, bullet) ==
    [kind |-> "Paragraph", elements |-> elements, style |-> style, bullet |-> bullet]

\* Paragraph.add_text
Paragraph_add_text(self, text, style) ==
    [self EXCEPT !.elements = Append(@, [content |-> text, style |-> style])]

Paragraph_to_request(self) ==
    LET break == <<[op |-> "insertText", text |-> <<"\n">>, textStyle |-> None]>>
        style_request ==
            IF self.style # None \/ self.bullet # None
            THEN <<[op |-> "updateParagraphStyle", paragraphStyle |-> self.style,
                    bullet |-> self.bullet]>>
            ELSE <<>>
    IN break \o style_request
          \o [i \in 1..Len(self.elements) |-> TextRun_to_request(self.elements[i])]

Table_to_request(self) ==
    [op |-> "insertTable", rows |-> Len(self.rows), columns |-> self.columns]

\* List.add_item on a list of the given items
List_add_item(items, text, style) ==
    Append(items, NewParagraph(<<[content |-> text, style |-> style]>>, None, "bullet"))

RECURSIVE List_to_request(_)
List_to_request(items) ==
    IF items = <<>> THEN <<>>
    ELSE Paragraph_to_request(Head(items)) \o List_to_request(Tail(items))

PageBreak_to_request == [op |-> "insertPageBreak"]

SectionBreak_to_request(self) ==
    [op |-> "insertSectionBreak", sectionType |-> self.section_type]

\* element.to_request() as build_requests adds it: a list is extended with, a
\* dict is appended
ElementRequests(element) ==
    CASE element.kind = "Paragraph" -> Paragraph_to_request(element)
      [] element.kind = "List" -> List_to_request(element.items)
      [] element.kind = "Table" -> <<Table_to_request(element)>>
      [] element.kind = "PageBreak" -> <<PageBreak_to_request>>
      [] element.kind = "SectionBreak" -> <<SectionBreak_to_request(element)>>

\* the loop of build_requests from element i on; origin records, for each
\* request, the position of the element it came from
RECURSIVE BuildLoop(_, _, _)
BuildLoop(elements, i, built) ==
    IF i > Len(elements) THEN built
    ELSE LET element_requests == ElementRequests(elements[i])
         IN BuildLoop(elements, i + 1,
                [requests |-> built.requests \o element_requests,
                 origin |-> built.origin \o [k \in 1..Len(element_requests) |-> i]])

NothingBuilt == [requests |-> <<>>, origin |-> <<>>]

build_requests(elements) == BuildLoop(elements, 1, NothingBuilt)

\* DocumentBuilder.add_title, add_heading, add_paragraph: the element appended
TitleParagraph(text, style) ==
    Paragraph_add_text(NewParagraph(<<>>, "TITLE", None), text, style)

HeadingParagraph(text, level, style) ==
    Paragraph_add_text(NewParagraph(<<>>, IF level = 1 THEN "HEADING_1" ELSE "HEADING_2",
                                    None), text, style)

PlainParagraph(text, text_style, paragraph_style) ==
    LET paragraph == NewParagraph(<<>>, paragraph_style, None)
    IN IF text # <<>> THEN Paragraph_add_text(paragraph, text, text_style) ELSE paragraph

(***************************************************************************)
(* utils.py: DocumentParser.  str.find and the two extraction functions    *)
(* that walk the body's content.                                           *)
(***************************************************************************)
\* text_content.find(search_text, start_pos): the least position from start_pos
\* on (0-based) where search_text begins, NoIndex when there is none
Find(text_content, search_text, start_pos) ==
    LET hits == {pos \in start_pos..(Len(text_content) - Len(search_text)) :
                    SubSeq(text_content, pos + 1, pos + Len(search_text)) = search_text}
    IN IF hits = {} THEN NoIndex ELSE CHOOSE pos \in hits : \A other \in hits : pos <= other

RECURSIVE JoinContents(_)
JoinContents(runs) ==
    IF runs = <<>> THEN <<>> ELSE Head(runs).content \o JoinContents(Tail(runs))

\* the paragraphs of body.content, their textRun elements, in order
extract_text_content(document) == JoinContents(RunsOf(document.content))

\* start_pos = pos + 1
NextStart(pos, search_text) == pos + 1

\* the while loop over one run, the run being the run-th the walk visits; a range
\* is (start_index, end_index), and run and pos record where it was found
RECURSIVE FindInRun(_, _, _, _, _, _)
FindInRun(text_content, search_text, start_pos, current_index, run, ranges) ==
    LET pos == Find(text_content, search_text, start_pos)
        start_index == current_index + pos
        end_index == start_index + PyLen(search_text)
    IN IF pos = NoIndex THEN ranges
       ELSE FindInRun(text_content, search_text, NextStart(pos, search_text), current_index,
                      run, Append(ranges, [start_index |-> start_index,
                                           end_index |-> end_index,
                                           run |-> run, pos |-> pos]))

\* the two for loops from the run-th run on
RECURSIVE FindLoop(_, _, _, _, _)
FindLoop(runs, run, search_text, current_index, ranges) ==
    IF run > Len(runs) THEN ranges
    ELSE FindLoop(runs, run + 1, search_text,
                  current_index + PyLen(runs[run].content),
                  FindInRun(runs[run].content, search_text, 0, current_index, run, ranges))

find_text_ranges(document, search_text) ==
    FindLoop(RunsOf(document.content), 1, search_text, 1, <<>>)

(***************************************************************************)
(* utils.py: ErrorHandler, and docs_client.py: retry_on_error.  An error   *)
(* is [ok, id, words]: id tells the invocation that raised it and words is  *)
(* the set of the phrases the handler looks for that its lowered message   *)
(* contains.  Delays are in milliseconds.                                  *)
(***************************************************************************)
is_quota_exceeded_error(error) == "quota" \in error.words \/ "rate limit" \in error.words

is_permission_error(error) == "permission" \in error.words \/ "forbidden" \in error.words

is_not_found_error(error) == "not found" \in error.words \/ "404" \in error.words

BaseDelay == 1000
MaxDelay == 60000
BriefDelay == 500

Min(x, y) == IF x <= y THEN x ELSE y

get_retry_delay(attempt, base_delay) == Min(base_delay * (2 ^ (attempt - 1)), MaxDelay)

\* last_error = None
NoError == [ok |-> FALSE, id |-> 0, words |-> {}]

\* mutant of RecordError: the first error is kept
RecordError_first(last_error, e) == IF last_error = NoError THEN e ELSE last_error

\* last_error = e
RecordError(last_error, e) == e

\* the locals of retry_on_error before the loop; invocations counts the calls of
\* func, retried_after is the error the last call of func came after, and delay
\* is the last sleep
RetryStart ==
    [attempt |-> 0, last_error |-> NoError, invocations |-> 0, retried_after |-> NoError,
     delay |-> 0, outcome |-> NoError]

\* one iteration of the for loop where func returned or raised outcome: the locals
\* after it, and how the iteration ended
RetryIteration(self, max_retries, outcome) ==
    LET invoked == [self EXCEPT !.invocations = @ + 1, !.retried_after = self.last_error]
        failed == [invoked EXCEPT !.last_error = RecordError(self.last_error, outcome)]
        raised == [failed EXCEPT !.outcome = failed.last_error]
    IN IF outcome.ok
       THEN [status |-> "returned", locals |-> [invoked EXCEPT !.outcome = outcome]]
       ELSE IF self.attempt = max_retries
       THEN [status |-> "raised", locals |-> raised]
       ELSE IF is_quota_exceeded_error(outcome)
       THEN [status |-> "running",
             locals |-> [failed EXCEPT !.attempt = @ + 1,
                                       !.delay = get_retry_delay(self.attempt + 1, BaseDelay)]]
       ELSE IF is_permission_error(outcome) \/ is_not_found_error(outcome)
       THEN [status |-> "raised", locals |-> raised]
       ELSE [status |-> "running",
             locals |-> [failed EXCEPT !.attempt = @ + 1, !.delay = BriefDelay]]

(***************************************************************************)
(* State                                                                   *)
(***************************************************************************)
VARIABLES
    requests,       \* BatchRequestBuilder.requests
    current_index,  \* BatchRequestBuilder._current_index
    returned,       \* the list the last get_requests call handed to the caller
    last,           \* the last builder call: its name, arguments and the builder before it
    inserted,       \* the lengths inserted since the builder was fresh, summed
    call,           \* the table function called and its arguments
    result          \* the outcome of that call

builderVars == <<requests, current_index, returned, last, inserted>>
tableVars == <<call, result>>
vars == <<requests, current_index, returned, last, inserted, call, result>>

Builder == [requests |-> requests, current_index |-> current_index]

\* no list was returned yet
NoList == [ref |-> "none", list |-> <<>>]

\* the list a returned reference denotes
Deref(ref) == IF ref.ref = "own" THEN requests ELSE ref.list

BuilderTexts == {<<>>, <<"a", "b">>, <<"W">>}
TextStyles == {None, "TS"}
ParagraphStyles == {None, "PS"}
TableDims == 1..MaxTableDim

NoArgs == [text |-> <<>>, text_style |-> None, paragraph_style |-> None,
           rows |-> 0, columns |-> 0]

BuilderInit ==
    /\ requests = FreshBuilder.requests
    /\ current_index = FreshBuilder.current_index
    /\ returned = NoList
    /\ last = [call |-> "new", args |-> NoArgs, before |-> FreshBuilder]
    /\ inserted = 0

\* a builder call that returns the builder: the new builder b, and the length the
\* call is counted with.  The caller keeps a list it got from get_requests until
\* its next call that changes the builder.
BuilderCall(name, args, b, length) ==
    /\ requests' = b.requests
    /\ current_index' = b.current_index
    /\ last' = [call |-> name, args |-> args, before |-> Builder]
    /\ inserted' = inserted + length
    /\ returned' = NoList

CanCall == Len(requests) < MaxRequests

InsertText ==
    /\ CanCall
    /\ \E text \in BuilderTexts, text_style \in TextStyles :
         BuilderCall("insert_text",
                     [NoArgs EXCEPT !.text = text, !.text_style = text_style],
                     B_insert_text(Builder, text, text_style),
                     PyLen(text))

InsertParagraph ==
    /\ CanCall
    /\ \E text \in BuilderTexts, text_style \in TextStyles,
          paragraph_style \in ParagraphStyles :
         BuilderCall("insert_paragraph",
                     [NoArgs EXCEPT !.text = text, !.text_style = text_style,
                                    !.paragraph_style = paragraph_style],
                     B_insert_paragraph(Builder, text, text_style, paragraph_style),
                     PyLen(text) + 1)

InsertTable ==
    /\ CanCall
    /\ \E rows \in TableDims, columns \in TableDims :
         BuilderCall("insert_table",
                     [NoArgs EXCEPT !.rows = rows, !.columns = columns],
                     B_insert_table(Builder, rows, columns),
                     rows * columns * 2 + 1)

InsertPageBreak ==
    /\ CanCall
    /\ BuilderCall("insert_page_break", NoArgs, B_insert_page_break(Builder), 1)

GetRequests ==
    /\ returned' = B_get_requests(Builder)
    /\ last' = [call |-> "get_requests", args |-> NoArgs, before |-> Builder]
    /\ UNCHANGED <<requests, current_index, inserted>>

Clear ==
    /\ requests' = B_clear(Builder).requests
    /\ current_index' = B_clear(Builder).current_index
    /\ last' = [call |-> "clear", args |-> NoArgs, before |-> Builder]
    /\ inserted' = 0
    /\ returned' = NoList

\* the caller changes the list it got from get_requests (list.append, list.clear);
\* a reference to the builder's own list would change the builder
JunkRequest == [op |-> "junk"]

Range(seq) == {seq[i] : i \in 1..Len(seq)}

MutateReturned ==
    /\ returned # NoList
    /\ \E how \in {"append", "clear"} :
         LET old == Deref(returned)
             new == IF how = "append" THEN Append(old, JunkRequest) ELSE <<>>
         IN /\ how = "append" => JunkRequest \notin Range(old)
            /\ IF returned.ref = "own"
               THEN requests' = new /\ returned' = returned
               ELSE requests' = requests /\ returned' = [returned EXCEPT !.list = new]
    /\ last' = [call |-> "mutate_returned", args |-> NoArgs, before |-> Builder]
    /\ UNCHANGED <<current_index, inserted>>

(***************************************************************************)
(* The inputs of the table functions and the documents of the service      *)
(***************************************************************************)
HeaderTexts == {<<"a", "b">>}
CellTexts == {<<"a", "b">>, <<" ", "W">>, <<"c">>, <<" ">>}

Seqs(S, n) == [1..n -> S]

DatasetsOf(nc, nr) ==
    {[columns |-> cols, rows |-> rows] :
        cols \in Seqs(HeaderTexts, nc), rows \in Seqs(Seqs(CellTexts, nc), nr)}

\* the datasets of at most MaxCols columns, MaxDataRows rows and MaxCells cells,
\* the header row counted
Datasets ==
    UNION {DatasetsOf(shape[1], shape[2]) :
              shape \in {sh \in (1..MaxCols) \X (0..MaxDataRows) :
                            (sh[2] + 1) * sh[1] <= MaxCells}}

\* three cells with texts of lengths 5, 3 and 4, reported at 50, 10 and 30
ScenarioLengths == <<5, 3, 4>>
ScenarioOffsets == <<50, 10, 30>>
ScenarioText(n) == [i \in 1..n |-> "a"]
ScenarioDf == [columns |-> <<ScenarioText(ScenarioLengths[1])>>,
               rows |-> <<<<ScenarioText(ScenarioLengths[2])>>,
                          <<ScenarioText(ScenarioLengths[3])>>>>]

Placeholder == <<"p", "h">>

Run(start, content) ==
    [startIndex |-> start, endIndex |-> start + Utf16Len(content), content |-> content]

ParagraphElement(start, content) ==
    [kind |-> "paragraph", startIndex |-> start, endIndex |-> start + Utf16Len(content),
     elements |-> <<Run(start, content)>>, tableRows |-> <<>>]

TableElement(start, end, table_rows) ==
    [kind |-> "table", startIndex |-> start, endIndex |-> end,
     elements |-> <<>>, tableRows |-> table_rows]

\* an empty document
EmptyDoc == [content |-> <<ParagraphElement(1, <<"\n">>)>>]

\* documents with the placeholder in the first run, in a later run, and without it
PlaceholderDocs ==
    {[content |-> <<ParagraphElement(1, Placeholder \o <<"\n">>)>>],
     [content |-> <<ParagraphElement(1, <<"a", "b", "\n">>),
                    ParagraphElement(4, <<"a">> \o Placeholder \o <<"\n">>)>>],
     [content |-> <<ParagraphElement(1, <<"a", "b", "\n">>)>>]}

CellWithParagraph(start) == [content |-> <<[kind |-> "paragraph", startIndex |-> start]>>]
CellWithoutParagraph == [content |-> <<>>]

ReportedTableStart == 2

\* the j-th paragraph position of a reported table
Slot(j) == ReportedTableStart + 1 + 2 * j

Perms(n) == {p \in [1..n -> 1..n] : \A i, j \in 1..n : p[i] = p[j] => i = j}

\* a table of nr rows of nc cells, the cells' paragraphs at the positions starts
\* gives them in row-major order (0: the cell has no paragraph)
TableRows(nr, nc, starts) ==
    [r \in 1..nr |->
        [tableCells |-> [c \in 1..nc |->
            IF starts[(r - 1) * nc + c] = 0 THEN CellWithoutParagraph
            ELSE CellWithParagraph(starts[(r - 1) * nc + c])]]]

DocWithTable(table_rows, end) ==
    [content |-> <<ParagraphElement(1, <<"\n">>),
                   TableElement(ReportedTableStart, end, table_rows),
                   ParagraphElement(end, <<"\n">>)>>]

\* the documents the fetch after the table insert may return for a dataset of
\* nr rows (header included) and nc columns: no table; the table with its cells'
\* paragraphs in any order of positions; one cell without a paragraph; one row or
\* one column fewer than the dataset has
RefetchedDocs(nr, nc) ==
    LET n == nr * nc
        end == Slot(n) + 2
        ascending == [k \in 1..n |-> Slot(k)]
    IN {EmptyDoc}
       \cup {DocWithTable(TableRows(nr, nc, [k \in 1..n |-> Slot(p[k])]), end) :
                p \in Perms(n)}
       \cup {DocWithTable(TableRows(nr, nc, [ascending EXCEPT ![k] = 0]), end) :
                k \in 1..n}
       \cup {DocWithTable(TableRows(nr - 1, nc, ascending), end),
             DocWithTable(TableRows(nr, nc - 1, ascending), end)}

ScenarioDoc ==
    DocWithTable(TableRows(3, 1, ScenarioOffsets), ScenarioOffsets[1] + 2)

RefetchedFor(df) ==
    IF df = ScenarioDf THEN {ScenarioDoc}
    ELSE RefetchedDocs(Len(DataOf(df)), Len(df.columns))

\* a document where a table that was there before the call comes after the table
\* the call inserted: both of the dataset's shape, their cells' paragraphs in order
DocWithTableBefore(nr, nc) ==
    LET n == nr * nc
        end == Slot(n) + 2
        shift == end + 1 - ReportedTableStart
    IN [content |-> <<ParagraphElement(1, <<"\n">>),
                      TableElement(ReportedTableStart, end,
                                   TableRows(nr, nc, [k \in 1..n |-> Slot(k)])),
                      ParagraphElement(end, <<"\n">>),
                      TableElement(ReportedTableStart + shift, end + shift,
                                   TableRows(nr, nc, [k \in 1..n |-> Slot(k) + shift])),
                      ParagraphElement(end + shift, <<"\n">>)>>]

\* what the fetch after the insert may return when the table was inserted at a
\* given index, where content may follow it, and when it was appended
RefetchedAt(df, index) ==
    RefetchedFor(df)
       \cup (IF index # NoIndex /\ df # ScenarioDf
             THEN {DocWithTableBefore(Len(DataOf(df)), Len(df.columns))}
             ELSE {})

OptionalTextStyle(style) == {None, style}

NoResult == [status |-> "pending", value |-> "", calls |-> <<>>, pop |-> NoPop]

TableInit ==
    /\ call \in
         {[fn |-> fn, df |-> df, index |-> index, placeholder |-> Placeholder,
           header_style |-> hs, cell_style |-> cs, table_cell_style |-> tcs] :
            fn \in {"insert", "replace"},
            df \in Datasets \cup {ScenarioDf},
            index \in {NoIndex, 3},
            hs \in OptionalTextStyle("HS"),
            cs \in OptionalTextStyle("CS"),
            tcs \in OptionalTextStyle("TCS")}
    /\ call.fn = "replace" => call.index = NoIndex
    /\ result = NoResult

InsertTableFromDataframe ==
    /\ result = NoResult
    /\ call.fn = "insert"
    /\ result' \in insert_table_from_dataframe(call, {EmptyDoc},
                                               RefetchedAt(call.df, call.index), {EmptyDoc})
    /\ UNCHANGED call

ReplaceTextWithTableFromDataframe ==
    /\ result = NoResult
    /\ call.fn = "replace"
    /\ result' \in replace_text_with_table_from_dataframe(call, PlaceholderDocs,
                                                          RefetchedFor(call.df), {EmptyDoc})
    /\ UNCHANGED call

(***************************************************************************)
(* Specifications                                                          *)
(***************************************************************************)
\* the batch builder under any sequence of calls
Init ==
    /\ BuilderInit
    /\ call = [fn |-> "none", df |-> [columns |-> <<>>, rows |-> <<>>],
               index |-> NoIndex, placeholder |-> Placeholder,
               header_style |-> None, cell_style |-> None, table_cell_style |-> None]
    /\ result = NoResult

Next ==
    \/ InsertText /\ UNCHANGED tableVars
    \/ InsertParagraph /\ UNCHANGED tableVars
    \/ InsertTable /\ UNCHANGED tableVars
    \/ InsertPageBreak /\ UNCHANGED tableVars
    \/ GetRequests /\ UNCHANGED tableVars
    \/ Clear /\ UNCHANGED tableVars
    \/ MutateReturned /\ UNCHANGED tableVars

Spec == Init /\ [][Next]_vars

\* one call of a table function on any dataset, against any service
InitTable == BuilderInit /\ TableInit

NextTable ==
    \/ InsertTableFromDataframe /\ UNCHANGED builderVars
    \/ ReplaceTextWithTableFromDataframe /\ UNCHANGED builderVars

SpecTable == InitTable /\ [][NextTable]_vars

\* one call of a function that takes a range, on any range
MaxIndex == 5
Indexes == (0 - 1)..MaxIndex

BuilderFunctions == {"RequestBuilder.update_text_style",
                     "RequestBuilder.update_paragraph_style",
                     "RequestBuilder.delete_content",
                     "RequestBuilder.create_named_range"}
ClientFunctions == {"format_text", "format_paragraph", "delete_content"}

OpsInit ==
    /\ call \in {[fn |-> fn, start_index |-> start_index, end_index |-> end_index,
                  style |-> "S", name |-> "N"] :
                    fn \in BuilderFunctions \cup ClientFunctions,
                    start_index \in Indexes, end_index \in Indexes}
    /\ result = NoResult

\* a RequestBuilder function returns the request it built
Built(request) == Returned(request, <<>>, NoPop)

OpsCall(fn, outcomes) ==
    /\ result = NoResult
    /\ call.fn = fn
    /\ result' \in outcomes
    /\ UNCHANGED call

UpdateTextStyle ==
    OpsCall("RequestBuilder.update_text_style",
            {Built(RB_update_text_style(call.start_index, call.end_index, call.style))})

UpdateParagraphStyle ==
    OpsCall("RequestBuilder.update_paragraph_style",
            {Built(RB_update_paragraph_style(call.start_index, call.end_index, call.style))})

DeleteContent ==
    OpsCall("RequestBuilder.delete_content",
            {Built(RB_delete_content(call.start_index, call.end_index))})

CreateNamedRange ==
    OpsCall("RequestBuilder.create_named_range",
            {Built(RB_create_named_range(call.name, call.start_index, call.end_index))})

FormatText ==
    OpsCall("format_text", format_text(call.start_index, call.end_index, call.style))

FormatParagraph ==
    OpsCall("format_paragraph",
            format_paragraph(call.start_index, call.end_index, call.style))

ClientDeleteContent ==
    OpsCall("delete_content", delete_content(call.start_index, call.end_index))

InitOps == BuilderInit /\ OpsInit

NextOps ==
    \/ UpdateTextStyle /\ UNCHANGED builderVars
    \/ UpdateParagraphStyle /\ UNCHANGED builderVars
    \/ DeleteContent /\ UNCHANGED builderVars
    \/ CreateNamedRange /\ UNCHANGED builderVars
    \/ FormatText /\ UNCHANGED builderVars
    \/ FormatParagraph /\ UNCHANGED builderVars
    \/ ClientDeleteContent /\ UNCHANGED builderVars

SpecOps == InitOps /\ [][NextOps]_vars

\* one call of to_dict on any style object
OptionalBool == {Unset, <<FALSE>>, <<TRUE>>}
Optional(value) == {Unset, <<value>>}

\* Dimension.points(0), Color(), a border dict, enum members, strings
ADimension == [magnitude |-> 0, unit |-> "PT"]
AColor == [red |-> 0, green |-> 0, blue |-> 0]
ABorder == [dashStyle |-> "SOLID"]
EnumMember(value) == [value |-> value]

TextStyleObjects ==
    [bold : OptionalBool, italic : OptionalBool, underline : OptionalBool,
     strikethrough : OptionalBool, small_caps : OptionalBool,
     font_family : Optional("Arial"), font_size : Optional(ADimension),
     foreground_color : Optional(AColor), background_color : Optional(AColor),
     baseline_offset : Optional(EnumMember("SUPERSCRIPT")),
     link_url : Optional("url")]

ParagraphStyleObjects ==
    [namedStyleType : Optional(EnumMember("HEADING_1")),
     alignment : Optional(EnumMember("CENTER")),
     line_spacing : Optional(0), direction : Optional("LEFT_TO_RIGHT"),
     spacing_mode : Optional("NEVER_COLLAPSE"),
     space_above : Optional(ADimension), space_below : Optional(ADimension),
     border_between : Optional(ABorder), border_top : Optional(ABorder),
     border_bottom : Optional(ABorder), border_left : Optional(ABorder),
     border_right : Optional(ABorder),
     indent_first_line : Optional(ADimension), indent_start : Optional(ADimension),
     indent_end : Optional(ADimension)]

TableCellStyleObjects ==
    [background_color : Optional(AColor),
     border_left : Optional(ABorder), border_right : Optional(ABorder),
     border_top : Optional(ABorder), border_bottom : Optional(ABorder),
     padding_left : Optional(ADimension), padding_right : Optional(ADimension),
     padding_top : Optional(ADimension), padding_bottom : Optional(ADimension),
     content_alignment : Optional(EnumMember("MIDDLE"))]

StyleInit ==
    /\ \/ call \in {[fn |-> "TextStyle.to_dict", style |-> style] :
                        style \in TextStyleObjects}
       \/ call \in {[fn |-> "ParagraphStyle.to_dict", style |-> style] :
                        style \in ParagraphStyleObjects}
       \/ call \in {[fn |-> "TableCellStyle.to_dict", style |-> style] :
                        style \in TableCellStyleObjects}
    /\ result = NoResult

TextStyleToDict ==
    OpsCall("TextStyle.to_dict", {Built(TextStyle_to_dict(call.style))})

ParagraphStyleToDict ==
    OpsCall("ParagraphStyle.to_dict", {Built(ParagraphStyle_to_dict(call.style))})

TableCellStyleToDict ==
    OpsCall("TableCellStyle.to_dict", {Built(TableCellStyle_to_dict(call.style))})

InitStyle == BuilderInit /\ StyleInit

NextStyle ==
    \/ TextStyleToDict /\ UNCHANGED builderVars
    \/ ParagraphStyleToDict /\ UNCHANGED builderVars
    \/ TableCellStyleToDict /\ UNCHANGED builderVars

SpecStyle == InitStyle /\ [][NextStyle]_vars

\* one call of a merge function on any sequence of partial styles
MaxStyles == 2

\* the partial text styles: bold, italic and font_family vary
PartialTextStyles ==
    {[NewTextStyle EXCEPT !.bold = bold, !.italic = italic, !.font_family = font_family] :
        bold \in OptionalBool, italic \in OptionalBool,
        font_family \in {Unset, <<"Arial">>, <<"Times">>}}

\* the partial style dicts over the keys bold and italic
PartialDicts ==
    {EmptyDict} \cup {("bold" :> bold) : bold \in BOOLEAN}
    \cup {("italic" :> italic) : italic \in BOOLEAN}
    \cup {("bold" :> bold) @@ ("italic" :> italic) : bold \in BOOLEAN, italic \in BOOLEAN}

MergeInit ==
    /\ \/ call \in {[fn |-> "merge_text_styles", styles |-> styles] :
                       styles \in UNION {Seqs({Unset} \cup {<<style>> : style \in PartialTextStyles}, n) :
                                            n \in 0..MaxStyles}}
       \/ call \in {[fn |-> "merge_styles", styles |-> styles] :
                       styles \in UNION {Seqs(PartialDicts, n) : n \in 0..MaxStyles}}
    /\ result = NoResult

MergeTextStyles ==
    OpsCall("merge_text_styles", {Built(merge_text_styles(call.styles))})

MergeStyles ==
    OpsCall("merge_styles", {Built(merge_styles(call.styles))})

InitMerge == BuilderInit /\ MergeInit

NextMerge ==
    \/ MergeTextStyles /\ UNCHANGED builderVars
    \/ MergeStyles /\ UNCHANGED builderVars

SpecMerge == InitMerge /\ [][NextMerge]_vars

\* a Table under any sequence of add_row and create_row calls
MaxRows == 3
MaxRowCells == 2

RowTexts == UNION {Seqs({<<"a">>, <<"b">>}, n) : n \in 0..MaxRowCells}

TableRowsInit ==
    /\ call \in {[fn |-> "Table", row |-> TextRow(<<>>), before |-> NewTable(<<>>),
                  rows |-> rows] :
                    rows \in {<<>>} \cup {<<TextRow(cell_texts)>> : cell_texts \in RowTexts}}
    /\ result = Built(NewTable(call.rows))

\* a method call on the table: the table after it is the value of the result
TableCall(fn, row, table) ==
    /\ Len(result.value.rows) < MaxRows
    /\ call' = [fn |-> fn, row |-> row, before |-> result.value, rows |-> <<>>]
    /\ result' = Built(table)

AddRow ==
    \E cell_texts \in RowTexts :
        TableCall("add_row", TextRow(cell_texts),
                  Table_add_row(result.value, TextRow(cell_texts)))

CreateRow ==
    \E cell_texts \in RowTexts :
        TableCall("create_row", TextRow(cell_texts),
                  Table_create_row(result.value, cell_texts))

InitTableRows == BuilderInit /\ TableRowsInit

NextTableRows ==
    \/ AddRow /\ UNCHANGED builderVars
    \/ CreateRow /\ UNCHANGED builderVars

SpecTableRows == InitTableRows /\ [][NextTableRows]_vars

\* a DocumentBuilder under any sequence of add calls and build_requests
MaxElements == 3

ElementTexts == {<<>>, <<"a", "b">>}

\* the DocumentBuilder: its elements, and what build_requests returned last
DocBuilderInit ==
    /\ call = [fn |-> "DocumentBuilder"]
    /\ result = Built([elements |-> <<>>, built |-> NothingBuilt])

TheElements == result.value.elements

\* an add method appends one element and returns the builder
AddElement(fn, element) ==
    /\ Len(TheElements) < MaxElements
    /\ call' = [fn |-> fn]
    /\ result' = Built([result.value EXCEPT !.elements = Append(@, element)])

AddTitle ==
    \E text \in ElementTexts, style \in TextStyles :
        AddElement("add_title", TitleParagraph(text, style))

AddHeading ==
    \E text \in ElementTexts, level \in {1, 2} :
        AddElement("add_heading", HeadingParagraph(text, level, None))

AddParagraph ==
    \E text \in ElementTexts, text_style \in TextStyles, paragraph_style \in ParagraphStyles :
        AddElement("add_paragraph", PlainParagraph(text, text_style, paragraph_style))

AddTable ==
    \E cell_texts \in {<<<<"a">>>>, <<<<"a">>, <<"b">>>>} :
        AddElement("add_table",
                   [kind |-> "Table"] @@ Table_create_row(NewTable(<<>>), cell_texts))

AddList ==
    \E text \in ElementTexts \ {<<>>}, n \in 1..2 :
        AddElement("add_list",
                   [kind |-> "List",
                    items |-> IF n = 1 THEN List_add_item(<<>>, text, None)
                              ELSE List_add_item(List_add_item(<<>>, text, None), text, "TS")])

AddPageBreak == AddElement("add_page_break", [kind |-> "PageBreak"])

AddSectionBreak ==
    AddElement("add_section_break", [kind |-> "SectionBreak", section_type |-> "NEXT_PAGE"])

BuildRequests ==
    /\ call' = [fn |-> "build_requests"]
    /\ result' = Built([result.value EXCEPT !.built = build_requests(TheElements)])

InitDocBuilder == BuilderInit /\ DocBuilderInit

NextDocBuilder ==
    \/ AddTitle /\ UNCHANGED builderVars
    \/ AddHeading /\ UNCHANGED builderVars
    \/ AddParagraph /\ UNCHANGED builderVars
    \/ AddTable /\ UNCHANGED builderVars
    \/ AddList /\ UNCHANGED builderVars
    \/ AddPageBreak /\ UNCHANGED builderVars
    \/ AddSectionBreak /\ UNCHANGED builderVars
    \/ BuildRequests /\ UNCHANGED builderVars

SpecDocBuilder == InitDocBuilder /\ [][NextDocBuilder]_vars

\* one call of a DocumentParser function on a fetched document.  A document is laid
\* out from blocks, a paragraph of one or two runs or a table of one cell that
\* holds one run, each reported at the position the blocks before it leave
MaxBlocks == 2

RunTexts == {<<"a", "a", "a">>, <<"a">>, <<"b", "\n">>, <<"W", "a", "b">>}
SearchTexts == {<<"a", "a">>, <<"a", "b">>, <<"a">>}

Blocks ==
    {[kind |-> "paragraph", texts |-> texts] : texts \in Seqs(RunTexts, 1) \cup Seqs(RunTexts, 2)}
       \cup {[kind |-> "table", texts |-> <<text>>] : text \in {<<"a", "a">>, <<"b">>}}

RECURSIVE ParserRuns(_, _)
ParserRuns(start, texts) ==
    IF texts = <<>> THEN <<>>
    ELSE <<Run(start, Head(texts))>> \o ParserRuns(start + Utf16Len(Head(texts)), Tail(texts))

ParserParagraph(start, texts) ==
    LET runs == ParserRuns(start, texts)
    IN [kind |-> "paragraph", startIndex |-> start, endIndex |-> runs[Len(runs)].endIndex,
        elements |-> runs, tableRows |-> <<>>]

\* a table of one cell: the table, its row and its cell take a position each
ParserTable(start, texts) ==
    LET paragraph == ParserParagraph(start + 3, texts)
    IN TableElement(start, paragraph.endIndex,
                    <<[tableCells |-> <<[content |-> <<paragraph>>]>>]>>)

RECURSIVE ParserContent(_, _)
ParserContent(start, blocks) ==
    IF blocks = <<>> THEN <<>>
    ELSE LET element == IF Head(blocks).kind = "paragraph"
                        THEN ParserParagraph(start, Head(blocks).texts)
                        ELSE ParserTable(start, Head(blocks).texts)
         IN <<element>> \o ParserContent(element.endIndex, Tail(blocks))

ParserDocuments ==
    {[content |-> ParserContent(1, blocks)] :
        blocks \in UNION {Seqs(Blocks, n) : n \in 1..MaxBlocks}}

ParserInit ==
    /\ call \in {[fn |-> fn, document |-> document, search_text |-> search_text] :
                    fn \in {"extract_text_content", "find_text_ranges"},
                    document \in ParserDocuments, search_text \in SearchTexts}
    /\ result = NoResult

ExtractTextContent ==
    OpsCall("extract_text_content", {Built(extract_text_content(call.document))})

FindTextRanges ==
    OpsCall("find_text_ranges", {Built(find_text_ranges(call.document, call.search_text))})

InitParser == BuilderInit /\ ParserInit

NextParser ==
    \/ ExtractTextContent /\ UNCHANGED builderVars
    \/ FindTextRanges /\ UNCHANGED builderVars

SpecParser == InitParser /\ [][NextParser]_vars

\* retry_on_error, one iteration of its loop per step; func is the environment:
\* every call of it returns or raises an error with any of these messages
MaxRetries == 7

ErrorWords ==
    {{}, {"quota"}, {"rate limit"}, {"permission"}, {"forbidden"}, {"not found"}, {"404"},
     {"quota", "permission"}, {"rate limit", "404"}}

FuncOutcomes(id) ==
    {[ok |-> TRUE, id |-> id, words |-> {}]}
       \cup {[ok |-> FALSE, id |-> id, words |-> words] : words \in ErrorWords}

RetryResult(status, locals) ==
    [status |-> status, value |-> locals, calls |-> <<>>, pop |-> NoPop]

RetryInit ==
    /\ call \in {[fn |-> "retry_on_error", max_retries |-> max_retries] :
                    max_retries \in (0 - 1)..MaxRetries}
    /\ result = RetryResult("running", RetryStart)

\* an iteration: func is called and the except clause handles what it raised
RetryAttempt ==
    /\ result.status = "running"
    /\ result.value.attempt <= call.max_retries
    /\ \E outcome \in FuncOutcomes(result.value.invocations + 1) :
          LET after == RetryIteration(result.value, call.max_retries, outcome)
          IN result' = RetryResult(after.status, after.locals)
    /\ UNCHANGED call

\* the loop ran out of attempts: raise last_error
RetryExhausted ==
    /\ result.status = "running"
    /\ result.value.attempt > call.max_retries
    /\ result' = RetryResult("raised", [result.value EXCEPT !.outcome = result.value.last_error])
    /\ UNCHANGED call

InitRetry == BuilderInit /\ RetryInit

NextRetry ==
    \/ RetryAttempt /\ UNCHANGED builderVars
    \/ RetryExhausted /\ UNCHANGED builderVars

SpecRetry == InitRetry /\ [][NextRetry]_vars

\* func returns or raises, and a sleep ends: the loop goes on while it can
SpecRetryFair == SpecRetry /\ WF_vars(NextRetry)

(***************************************************************************)
(* Claims about the batch builder (specification Spec)                     *)
(***************************************************************************)
IsInsertRequest(r) == r.op \in {"insertText", "insertTable", "insertPageBreak"}

\* the length a request inserts, as the claims count it
RequestLength(r) ==
    CASE r.op = "insertText" -> Len(r.text)
      [] r.op = "insertTable" -> r.rows * r.columns * 2 + 1
      [] r.op = "insertPageBreak" -> 1
      [] OTHER -> 0

RECURSIVE LengthBefore(_, _)
LengthBefore(reqs, i) ==
    IF i <= 1 THEN 0 ELSE LengthBefore(reqs, i - 1) + RequestLength(reqs[i - 1])

\* the requests the last call added
NewRequests == SubSeq(requests, Len(last.before.requests) + 1, Len(requests))

\* C1: after every call on a builder that was fresh, the cursor is 1 plus the sum
\* of the lengths inserted so far (len(text) per text, 1 per paragraph break and
\* page break, rows*columns*2+1 per table), no inserting call lowers it, and every
\* insert request declares the cursor value of the moment it was emitted
C1_CursorIsOnePlusInserted ==
    /\ current_index = 1 + inserted
    /\ last.call \in {"insert_text", "insert_paragraph", "insert_table", "insert_page_break"}
          => current_index >= last.before.current_index
    /\ \A i \in 1..Len(requests) :
          IsInsertRequest(requests[i]) => requests[i].index = 1 + LengthBefore(requests, i)

C1_Witness ==
    /\ Len(requests) = 3
    /\ requests[1].op = "insertTable"
    /\ requests[2].op = "insertText" /\ requests[2].text = <<"a", "b">>
    /\ requests[3].op = "insertPageBreak"
    /\ current_index > 3

\* C7: insert_text(text, style) appends InsertText at the cursor, with a style also
\* an UpdateTextStyle over [cursor, cursor+len(text)), and advances the cursor by
\* len(text)
C7_InsertTextAppendsStyle ==
    last.call = "insert_text" =>
        LET c == last.before.current_index
            text == last.args.text
            style == last.args.text_style
        IN /\ NewRequests =
                <<[op |-> "insertText", index |-> c, text |-> text]>>
                \o (IF style # None
                    THEN <<[op |-> "updateTextStyle", startIndex |-> c,
                            endIndex |-> c + Len(text), textStyle |-> style]>>
                    ELSE <<>>)
           /\ current_index = c + Len(text)

\* C8: insert_paragraph emits the text insert (only for a non-empty text), then the
\* insert of the paragraph break at the advanced cursor, then (only with a
\* paragraph style) an UpdateParagraphStyle over [cursor before, cursor after)
C8_ParagraphOrderAndRange ==
    last.call = "insert_paragraph" =>
        LET c == last.before.current_index
            text == last.args.text
            style == last.args.paragraph_style
            emitted == SelectSeq(NewRequests, LAMBDA r : r.op # "updateTextStyle")
        IN /\ current_index = c + Len(text) + 1
           /\ emitted =
                (IF text # <<>>
                 THEN <<[op |-> "insertText", index |-> c, text |-> text]>> ELSE <<>>)
                \o <<[op |-> "insertText", index |-> c + Len(text), text |-> <<"\n">>]>>
                \o (IF style # None
                    THEN <<[op |-> "updateParagraphStyle", startIndex |-> c,
                            endIndex |-> current_index, paragraphStyle |-> style]>>
                    ELSE <<>>)

C8_Witness ==
    /\ last.call = "insert_paragraph"
    /\ last.args.text = <<"a", "b">>
    /\ last.args.paragraph_style # None
    /\ last.before.current_index > 1
    /\ Len(NewRequests) = 3

\* C9: the builder advances its cursor by the UTF-16 code unit length of the text,
\* 2 for a code point outside the Basic Multilingual Plane
C9_CursorCountsCodeUnits ==
    last.call = "insert_text" =>
        current_index = last.before.current_index + Utf16Len(last.args.text)

\* C10: get_requests changes neither the stored requests nor the cursor and returns
\* the stored sequence; changing a returned list changes neither; clear leaves the
\* builder as a fresh one
C10_DrainAndReset ==
    /\ last.call = "get_requests" =>
          /\ Builder = last.before
          /\ Deref(returned) = requests
    /\ last.call = "mutate_returned" => Builder = last.before
    /\ last.call = "clear" => Builder = FreshBuilder

C10_Witness ==
    /\ last.call = "mutate_returned"
    /\ requests # <<>>
    /\ Deref(returned) # requests
    /\ current_index > 1

(***************************************************************************)
(* Claims about table population (specification SpecTable)                 *)
(***************************************************************************)
Pop == result.pop

\* the entries as the collecting loops appended them, before the sort
Collected == CollectRows(DataOf(call.df), Pop.table_rows, 0)

RECURSIVE TextLengthBefore(_, _)
TextLengthBefore(entries, i) ==
    IF i <= 1 THEN 0 ELSE TextLengthBefore(entries, i - 1) + Len(entries[i - 1].text)

IndexesOf(reqs) == [i \in 1..Len(reqs) |-> reqs[i].index]

\* as many of each entry in s as in t
SameEntries(s, t) ==
    /\ Len(s) = Len(t)
    /\ \A e \in Range(s) \cup Range(t) :
          Cardinality({i \in 1..Len(s) : s[i] = e}) = Cardinality({i \in 1..Len(t) : t[i] = e})

InScenario == call.df = ScenarioDf /\ Pop.located

\* C3 as stated: in the scenario the InsertText operations are at 10, 33, 59
C3_ScenarioOffsets_59 ==
    InScenario => IndexesOf(Pop.acc.requests) = <<10, 33, 59>>

\* C3: for three cells reported at 50, 10, 30 with texts of lengths 5, 3, 4 the
\* InsertText operations are at 10, 33, 57, in that order, and they are the first
\* three operations of the batch
C3_ScenarioOffsets ==
    InScenario =>
        /\ IndexesOf(Pop.acc.requests) = <<10, 33, 57>>
        /\ SubSeq(Pop.all_requests, 1, 3) = Pop.acc.requests
        /\ Pop.batch_call > 0 => result.calls[Pop.batch_call].requests = Pop.all_requests

C3_Witness ==
    /\ InScenario
    /\ Pop.sent
    /\ [i \in 1..3 |-> Pop.entries[i].start_index] = <<10, 30, 50>>
    /\ [i \in 1..3 |-> Len(Pop.entries[i].text)] = <<3, 4, 5>>

(***************************************************************************)
(* The batch replayed against the document the offsets were reported in.   *)
(* The document is a sequence of code units: position q holds the first    *)
(* unit of the paragraph of cell (row, col) or a unit of the structure; an *)
(* InsertText at index q puts the code units of its text before it.       *)
(***************************************************************************)
StructUnit == [kind |-> "struct", row |-> 0, col |-> 0]
ParagraphUnit(row, col) == [kind |-> "paragraph", row |-> row, col |-> col]
TextUnit(row, col) == [kind |-> "text", row |-> row, col |-> col]

SnapshotLength ==
    Pop.document.content[Len(Pop.document.content)].endIndex

Snapshot ==
    [q \in 1..SnapshotLength |->
        IF \E e \in Range(Pop.entries) : e.start_index = q
        THEN LET e == CHOOSE e \in Range(Pop.entries) : e.start_index = q
             IN ParagraphUnit(e.row_idx, e.col_idx)
        ELSE StructUnit]

InsertUnits(doc, index, n, unit) ==
    IF index < 1 \/ index > Len(doc) + 1 THEN doc
    ELSE SubSeq(doc, 1, index - 1) \o [k \in 1..n |-> unit] \o SubSeq(doc, index, Len(doc))

\* the document after the first n InsertText operations of the batch
RECURSIVE Replayed(_)
Replayed(n) ==
    IF n = 0 THEN Snapshot
    ELSE InsertUnits(Replayed(n - 1), Pop.acc.requests[n].index,
                     Utf16Len(Pop.acc.requests[n].text),
                     TextUnit(Pop.entries[n].row_idx, Pop.entries[n].col_idx))

\* the sorted entries a text style applies to, in order: the i-th text style
\* request is that of the i-th of them
StyledEntries ==
    SelectSeq(Pop.entries,
              LAMBDA e : (IF e.is_header THEN call.header_style ELSE call.cell_style) # None)

InDocument(doc, q) == q >= 1 /\ q <= Len(doc)

\* C4: replayed against the snapshot, every InsertText lands at the paragraph start
\* of its cell, and after the inserts every UpdateTextStyle range covers exactly
\* the text inserted for its cell
C4_ReplayKeepsOffsetsValid ==
    Pop.sent =>
        /\ \A i \in 1..Len(Pop.entries) :
              LET doc == Replayed(i - 1)
                  q == Pop.acc.requests[i].index
              IN /\ InDocument(doc, q)
                 /\ doc[q] = ParagraphUnit(Pop.entries[i].row_idx, Pop.entries[i].col_idx)
        /\ Len(Pop.acc.text_style_requests) = Len(StyledEntries)
        /\ \A i \in 1..Len(StyledEntries) :
              LET doc == Replayed(Len(Pop.entries))
                  r == Pop.acc.text_style_requests[i]
                  unit == TextUnit(StyledEntries[i].row_idx, StyledEntries[i].col_idx)
              IN {q \in 1..Len(doc) : doc[q] = unit} = r.startIndex..(r.endIndex - 1)

\* the same for the calls whose texts are all within the Basic Multilingual Plane
C4_HoldsWithinBmp ==
    (\A e \in Range(Pop.entries) : "W" \notin Range(e.text)) => C4_ReplayKeepsOffsetsValid

\* C5: the batch sent is all InsertText operations in ascending offset order, then
\* all UpdateTextStyle operations, then all UpdateTableCellStyle operations; no
\* style operation precedes an InsertText
C5_InsertsThenStyles ==
    Pop.batch_call > 0 =>
        LET batch == result.calls[Pop.batch_call].requests
            n == Len(Pop.acc.requests)
            m == Len(Pop.acc.text_style_requests)
            k == Len(Pop.acc.table_cell_style_requests)
        IN /\ result.calls[Pop.batch_call].call = "update_document"
           /\ Len(batch) = n + m + k
           /\ n = Len(Pop.entries)
           /\ \A i \in 1..Len(batch) :
                 batch[i].op = IF i <= n THEN "insertText"
                               ELSE IF i <= n + m THEN "updateTextStyle"
                               ELSE "updateTableCellStyle"
           /\ \A i \in 1..(n - 1) : batch[i].index <= batch[i + 1].index
           /\ \A i, j \in 1..Len(batch) :
                 (batch[i].op # "insertText" /\ batch[j].op = "insertText") => j < i

C5_Witness ==
    /\ Pop.sent
    /\ Len(Pop.acc.requests) >= 2
    /\ Len(Pop.acc.text_style_requests) >= 1
    /\ Len(Pop.acc.table_cell_style_requests) >= 2
    /\ result.calls[Pop.batch_call].requests[1].op = "insertText"
    /\ result.calls[Pop.batch_call].requests[Len(Pop.all_requests)].op = "updateTableCellStyle"

\* C6: with a table cell style, every UpdateTableCellStyle is addressed by the row
\* and column of the cell of its entry, with the reported table start, so distinct
\* populated cells get distinct addresses
C6_CellStyleAddressesItsCell ==
    (Pop.located /\ call.table_cell_style # None) =>
        /\ Len(Pop.acc.table_cell_style_requests) = Len(Pop.entries)
        /\ \A i \in 1..Len(Pop.entries) :
              LET r == Pop.acc.table_cell_style_requests[i]
              IN /\ r.rowIndex = Pop.entries[i].row_idx
                 /\ r.columnIndex = Pop.entries[i].col_idx
                 /\ r.tableStartLocation = Pop.table_start_index

\* the same for replace_text_with_table_from_dataframe alone
C6_HoldsForReplace ==
    call.fn = "replace" => C6_CellStyleAddressesItsCell

\* C9 for table population: the running offset grows by the UTF-16 code unit
\* length of each text
C9_DeltaCountsCodeUnits ==
    Pop.located =>
        \A i \in 1..Len(Pop.entries) :
            Pop.acc.requests[i].index =
                Pop.entries[i].start_index
                + Utf16Len(JoinTexts([j \in 1..(i - 1) |-> Pop.entries[j].text], <<>>))

(***************************************************************************)
(* Further claims about the batch builder (specification Spec)             *)
(***************************************************************************)
\* C11: insert_table(rows, columns) appends exactly one request, the InsertTable
\* at the cursor with these rows and columns, and then advances the cursor by
\* (rows*columns*2)+1
C11_InsertTableOneRequest ==
    last.call = "insert_table" =>
        LET c == last.before.current_index
            rows == last.args.rows
            columns == last.args.columns
        IN /\ SubSeq(requests, 1, Len(last.before.requests)) = last.before.requests
           /\ NewRequests = <<[op |-> "insertTable", index |-> c,
                               rows |-> rows, columns |-> columns]>>
           /\ current_index = c + (rows * columns * 2) + 1

C11_Witness ==
    /\ last.call = "insert_table"
    /\ last.args.rows = 1 /\ last.args.columns = 2
    /\ last.before.current_index > 1
    /\ last.before.requests # <<>>
    /\ current_index = last.before.current_index + 5

(***************************************************************************)
(* Further claims about table population (specification SpecTable)         *)
(***************************************************************************)
Called == result.status # "pending"

\* the calls of one kind a call made to the document service
CallCount(kind) == Cardinality({i \in 1..Len(result.calls) : result.calls[i].call = kind})

\* C12: called with a dataset of zero data rows, either table function raises the
\* validation error (ValueError) and has made no get_document and no
\* update_document call
C12_EmptyDatasetRaisesFirst ==
    (Called /\ Len(call.df.rows) = 0) =>
        /\ result.status = "raised"
        /\ result.value = "ValueError"
        /\ CallCount("get_document") = 0
        /\ CallCount("update_document") = 0

C12_Witness ==
    /\ Called
    /\ call.fn = "insert" /\ call.index = NoIndex
    /\ Len(call.df.rows) = 0 /\ Len(call.df.columns) = 2
    /\ result.status = "raised"
    /\ result.calls = <<>>

\* the fetch after the table insert succeeded and reported no table element
NoTableReported == Pop.refetch_call > 0 /\ ~Pop.located

\* the calls made to the service after the fetch that followed the table insert
AfterRefetchCalls == SubSeq(result.calls, Pop.refetch_call + 1, Len(result.calls))

CellOps == {"updateTableCellStyle", "updateTextStyle", "insertText"}

\* C13: when the fetch after the table insert reports no table, what follows is one
\* append of plain text (the fetch of the document end, then one update with the
\* one InsertText of the text "Table Data" + the stringified dataset, as
\* GoogleDocsClient.insert_text cleans it), and no update carries an
\* UpdateTableCellStyle, an UpdateTextStyle or an InsertText into a cell
C13_NoTableFallsBackToText ==
    NoTableReported =>
        /\ Len(AfterRefetchCalls) \in 1..2
        /\ AfterRefetchCalls[1] = GetCall
        /\ result.status = "returned" => Len(AfterRefetchCalls) = 2
        /\ Len(AfterRefetchCalls) = 2 =>
              LET update == AfterRefetchCalls[2]
              IN /\ update.call = "update_document"
                 /\ Len(update.requests) = 1
                 /\ update.requests[1].op = "insertText"
                 /\ update.requests[1].text = clean_text(FallbackText(call.df))
                 /\ Contains(update.requests[1].text, clean_text(df_to_string(call.df)))
                 /\ \A i \in 1..Len(DataOf(call.df)) :
                       Contains(update.requests[1].text,
                                clean_text(JoinTexts(DataOf(call.df)[i], <<" ">>)))
        /\ \A i \in 1..Pop.refetch_call :
              \A r \in Range(result.calls[i].requests) : r.op \notin CellOps

C13_Witness ==
    /\ NoTableReported
    /\ call.fn = "insert"
    /\ Len(call.df.rows) = 1 /\ Len(call.df.columns) = 2
    /\ call.table_cell_style # None
    /\ result.status = "returned"
    /\ Len(AfterRefetchCalls) = 2
    /\ CallCount("update_document") = 2

\* the call went down its degradation path: the table was not reported, or no cell
\* yielded an operation, or the update that carried the batch failed
Degraded ==
    /\ Pop.refetch_call > 0
    /\ \/ ~Pop.located
       \/ Pop.all_requests = <<>>
       \/ (Pop.batch_call > 0 /\ ~Pop.sent)

\* C14: a call that goes down its degradation path returns normally, whatever the
\* fetch and the update of its plain-text append do
C14_DegradationNeverRaises ==
    Degraded => result.status = "returned"

\* a call on its degradation path raises only out of a call its append makes
C14_RaisesOnlyFromAppend ==
    (Degraded /\ result.status = "raised") =>
        /\ Len(result.calls) > Pop.refetch_call
        /\ Len(result.calls) > Pop.batch_call

\* the dataset cell (row_idx, col_idx), the header row being row 0, lies within the
\* reported structure
InStructure(row_idx, col_idx) ==
    /\ row_idx < Len(Pop.table_rows)
    /\ col_idx < Len(Pop.table_rows[row_idx + 1].tableCells)

DataCells ==
    {rc \in (0..(Len(DataOf(call.df)) - 1)) \X (0..(Len(call.df.columns) - 1)) : TRUE}

DataText(rc) == DataOf(call.df)[rc[1] + 1][rc[2] + 1]

\* the reported structure has fewer rows, or fewer cells in some row, than the dataset
UnderReported ==
    \E rc \in DataCells : ~InStructure(rc[1], rc[2])

\* C15: with a table reported the population is computed whatever the size of the
\* reported structure; no dataset cell beyond it yields an entry, and every dataset
\* cell within it that is non-empty (after strip) and has a paragraph yields exactly
\* one entry, whose InsertText carries its text and is part of the batch
C15_UnderReportedCellsSkipped ==
    Pop.located =>
        /\ \A e \in Range(Pop.entries) :
              /\ <<e.row_idx, e.col_idx>> \in DataCells
              /\ InStructure(e.row_idx, e.col_idx)
        /\ \A rc \in DataCells :
              (/\ InStructure(rc[1], rc[2])
               /\ Strip(DataText(rc)) # <<>>
               /\ FirstParagraphStart(
                      Pop.table_rows[rc[1] + 1].tableCells[rc[2] + 1].content) # 0)
              => /\ Cardinality({i \in 1..Len(Pop.entries) :
                                    /\ Pop.entries[i].row_idx = rc[1]
                                    /\ Pop.entries[i].col_idx = rc[2]}) = 1
                 /\ \E i \in 1..Len(Pop.entries) :
                       /\ Pop.entries[i].row_idx = rc[1]
                       /\ Pop.entries[i].col_idx = rc[2]
                       /\ Pop.all_requests[i].op = "insertText"
                       /\ Pop.all_requests[i].text = clean_text(Strip(DataText(rc)))
                       /\ Pop.batch_call > 0
                       /\ result.calls[Pop.batch_call].requests[i] = Pop.all_requests[i]

C15_Witness ==
    /\ Pop.located
    /\ UnderReported
    /\ Len(call.df.columns) = 2
    /\ Len(Pop.table_rows) = 2
    /\ Len(Pop.entries) = 2
    /\ Pop.sent
    /\ result.status = "returned"

\* the Range invariant of an operation that carries a range
ValidRange(start_index, end_index) == start_index >= 1 /\ end_index > start_index

\* C16: every operation with a range in the batch table population sends has
\* start >= 1 and end > start; an entry whose range would not (a cell whose text
\* is empty after cleaning) has no operation in the batch
C16_BatchRangesValid ==
    Pop.batch_call > 0 =>
        \A r \in Range(result.calls[Pop.batch_call].requests) :
            /\ r.op = "updateTextStyle" => ValidRange(r.startIndex, r.endIndex)
            /\ r.op = "insertText" => r.text # <<>>

\* the same for the calls none of whose cells is emptied by the cleaning
C16_HoldsForTextsLeftNonEmpty ==
    (\A e \in Range(Pop.entries) : e.text # <<>>) => C16_BatchRangesValid

(***************************************************************************)
(* Claims about the functions that take a range (specification SpecOps)    *)
(***************************************************************************)
\* C17: update_text_style, update_paragraph_style, delete_content and
\* create_named_range of RequestBuilder reject a range with end <= start or
\* start < 1 with an error and return no operation for it
C17_BuilderRejectsInvalidRange ==
    (Called /\ call.fn \in BuilderFunctions
            /\ ~ValidRange(call.start_index, call.end_index))
        => result.status = "raised"

\* what they do: the operation is returned with the range as it was given
C17_BuilderReturnsAnyRange ==
    (Called /\ call.fn \in BuilderFunctions) =>
        /\ result.status = "returned"
        /\ result.value.startIndex = call.start_index
        /\ result.value.endIndex = call.end_index

\* the one operation a client function sends for a range
ExpectedRequest ==
    CASE call.fn = "format_text" ->
             [op |-> "updateTextStyle", startIndex |-> call.start_index,
              endIndex |-> call.end_index, textStyle |-> call.style]
      [] call.fn = "format_paragraph" ->
             [op |-> "updateParagraphStyle", startIndex |-> call.start_index,
              endIndex |-> call.end_index, paragraphStyle |-> call.style]
      [] OTHER ->
             [op |-> "deleteContentRange", startIndex |-> call.start_index,
              endIndex |-> call.end_index]

\* C18: format_text, format_paragraph and delete_content of the client raise the
\* validation error (ValueError) when end_index <= start_index or start_index < 1
\* and then send no update; for a valid range they make exactly one update call,
\* carrying the one operation
C18_ClientValidatesRange ==
    (Called /\ call.fn \in ClientFunctions) =>
        IF ~ValidRange(call.start_index, call.end_index)
        THEN /\ result.status = "raised"
             /\ result.value = "ValueError"
             /\ result.calls = <<>>
        ELSE /\ Len(result.calls) = 1
             /\ result.calls[1] = UpdateCall(<<ExpectedRequest>>)

C18_Witness ==
    /\ Called
    /\ call.fn = "format_text"
    /\ call.start_index = 5 /\ call.end_index = 5
    /\ result.status = "raised"
    /\ result.calls = <<>>

(***************************************************************************)
(* Claims about the order of the calls to the service (SpecTable)          *)
(***************************************************************************)
HasOp(service_call, op) == \E r \in Range(service_call.requests) : r.op = op

\* the paragraph starts of the cells of the tables of a document
ParagraphStartsOf(document) ==
    {FirstParagraphStart(element.tableRows[r].tableCells[c].content) :
        <<element, r, c>> \in
            {erc \in Range(document.content) \X (1..MaxCells) \X (1..MaxCells) :
                /\ erc[1].kind = "table"
                /\ erc[2] <= Len(erc[1].tableRows)
                /\ erc[3] <= Len(erc[1].tableRows[erc[2]].tableCells)}}

\* C19: the update that inserts the table is the call just before the fetch the
\* cell offsets are read from, and the only one that inserts a table; every update
\* with operations on cells, the batch among them, comes after that fetch; the
\* table populated is one of the document that fetch returned, and the offsets of
\* the entries are paragraph starts of that document
C19_InsertThenFetchThenPopulate ==
    Pop.refetch_call > 0 =>
        LET k == Pop.refetch_call
        IN /\ k >= 2
           /\ result.calls[k] = GetCall
           /\ result.calls[k - 1].call = "update_document"
           /\ \A i \in 1..Len(result.calls) :
                 HasOp(result.calls[i], "insertTable") <=> i = k - 1
           /\ \A i \in 1..Len(result.calls) :
                 (\E op \in CellOps : HasOp(result.calls[i], op)) => i > k
           /\ Pop.batch_call > 0 => Pop.batch_call = k + 1
           /\ Pop.located =>
                 \E element \in Range(Pop.document.content) :
                    element.kind = "table" /\ element.tableRows = Pop.table_rows
           /\ \A e \in Range(Pop.entries) : e.start_index \in ParagraphStartsOf(Pop.document)

C19_Witness ==
    /\ Pop.sent
    /\ call.fn = "insert" /\ call.index = NoIndex
    /\ Pop.refetch_call = 3
    /\ Pop.batch_call = 4
    /\ Len(Pop.entries) >= 2
    /\ Len(result.calls) = 4

(***************************************************************************)
(* Claims about style serialization (specification SpecStyle)              *)
(***************************************************************************)
\* the wire key of each field of the three style classes
WireKeys ==
    [bold |-> "bold", italic |-> "italic", underline |-> "underline",
     strikethrough |-> "strikethrough", small_caps |-> "smallCaps",
     font_family |-> "weightedFontFamily", font_size |-> "fontSize",
     foreground_color |-> "foregroundColor", background_color |-> "backgroundColor",
     baseline_offset |-> "baselineOffset", link_url |-> "link",
     namedStyleType |-> "namedStyleType", alignment |-> "alignment",
     line_spacing |-> "lineSpacing", direction |-> "direction",
     spacing_mode |-> "spacingMode", space_above |-> "spaceAbove",
     space_below |-> "spaceBelow", border_between |-> "borderBetween",
     border_top |-> "borderTop", border_bottom |-> "borderBottom",
     border_left |-> "borderLeft", border_right |-> "borderRight",
     indent_first_line |-> "indentFirstLine", indent_start |-> "indentStart",
     indent_end |-> "indentEnd", padding_left |-> "paddingLeft",
     padding_right |-> "paddingRight", padding_top |-> "paddingTop",
     padding_bottom |-> "paddingBottom", content_alignment |-> "contentAlignment"]

BoolFields == {"bold", "italic", "underline", "strikethrough", "small_caps"}

\* C20: the mapping to_dict returns holds the wire key of a field exactly when the
\* field is set (not None) and holds no other key; a style with no field set gives
\* the empty mapping; a boolean field set to false is present with the value false
C20_OnlySetFieldsSerialized ==
    Called =>
        LET style == call.style
            wire == result.value
        IN /\ result.status = "returned"
           /\ \A field \in DOMAIN style :
                 WireKeys[field] \in DOMAIN wire <=> style[field] # Unset
           /\ DOMAIN wire \subseteq {WireKeys[field] : field \in DOMAIN style}
           /\ (\A field \in DOMAIN style : style[field] = Unset) => wire = EmptyDict
           /\ \A field \in DOMAIN style \cap BoolFields :
                 style[field] # Unset => wire[WireKeys[field]] = style[field][1]

C20_Witness ==
    /\ Called
    /\ call.fn = "TextStyle.to_dict"
    /\ call.style.bold = <<FALSE>>
    /\ \A field \in DOMAIN call.style : field # "bold" => call.style[field] = Unset
    /\ DOMAIN result.value = {"bold"}
    /\ result.value["bold"] = FALSE

(***************************************************************************)
(* Claims about merging styles (specification SpecMerge)                   *)
(***************************************************************************)
\* the arguments of a merge_text_styles call that set a field
SettersOf(field) ==
    {i \in 1..Len(call.styles) :
        call.styles[i] # Unset /\ call.styles[i][1][field] # Unset}

\* the arguments of a merge_styles call that hold a key
HoldersOf(key) == {i \in 1..Len(call.styles) : key \in DOMAIN call.styles[i]}

Last(S) == CHOOSE i \in S : \A j \in S : j <= i

\* C21: the style merge_text_styles returns has, for each field, the value of the
\* last argument that sets the field (false included) and leaves it unset when none
\* does; the arguments are as they were; merging a single style gives a style
\* equal to it.  merge_styles does the same per key of its dicts
C21_MergeLastWriteWins ==
    /\ (Called /\ call.fn = "merge_text_styles") =>
          /\ \A field \in DOMAIN NewTextStyle :
                result.value.merged[field] =
                    IF SettersOf(field) = {} THEN Unset
                    ELSE call.styles[Last(SettersOf(field))][1][field]
          /\ result.value.styles = call.styles
          /\ (Len(call.styles) = 1 /\ call.styles[1] # Unset) =>
                result.value.merged = call.styles[1][1]
    /\ (Called /\ call.fn = "merge_styles") =>
          /\ DOMAIN result.value.merged = UNION {DOMAIN call.styles[i] : i \in 1..Len(call.styles)}
          /\ \A key \in DOMAIN result.value.merged :
                result.value.merged[key] = call.styles[Last(HoldersOf(key))][key]
          /\ result.value.styles = call.styles

C21_Witness ==
    /\ Called
    /\ call.fn = "merge_text_styles"
    /\ Len(call.styles) = 2
    /\ call.styles[1] # Unset /\ call.styles[2] # Unset
    /\ call.styles[1][1].bold = <<TRUE>> /\ call.styles[2][1].bold = <<FALSE>>
    /\ call.styles[1][1].italic = <<TRUE>> /\ call.styles[2][1].italic = Unset
    /\ result.value.merged.bold = <<FALSE>>
    /\ result.value.merged.italic = <<TRUE>>

(***************************************************************************)
(* Claims about Table (specification SpecTableRows)                        *)
(***************************************************************************)
TheTable == result.value

\* the columns are those of the first row, and the last call, made on a table that
\* had a row, left them as they were
ColumnsFromFirstRow ==
    /\ TheTable.rows # <<>> => TheTable.columns = Len(TheTable.rows[1].cells)
    /\ (call.fn \in {"add_row", "create_row"} /\ call.before.rows # <<>>)
          => TheTable.columns = call.before.columns

\* C22: once a table has a first row its columns value is the number of cells of
\* that row, and no later add_row or create_row changes it, whatever the number of
\* cells of the rows added later
C22_ColumnsSetOnceFromFirstRow == ColumnsFromFirstRow

\* the same for the tables whose first row has a cell
C22_HoldsForNonEmptyFirstRow ==
    (TheTable.rows # <<>> /\ TheTable.rows[1].cells # <<>>) => ColumnsFromFirstRow

(***************************************************************************)
(* Claims about DocumentBuilder (specification SpecDocBuilder)             *)
(***************************************************************************)
TheBuilt == result.value.built

JustBuilt == call.fn = "build_requests"

\* the positions in the built list of the operations of element i
PositionsOf(i) == {k \in 1..Len(TheBuilt.origin) : TheBuilt.origin[k] = i}

IsBreak(request) == request.op = "insertText" /\ request.text = <<"\n">>
IsStyle(request) == request.op = "updateParagraphStyle"
IsText(request) == request.op = "insertText" /\ request.text # <<"\n">>

\* the operations come element by element in the order the elements were added
ElementsInAddedOrder ==
    /\ \A k \in 1..(Len(TheBuilt.origin) - 1) : TheBuilt.origin[k] <= TheBuilt.origin[k + 1]
    /\ \A i \in 1..Len(TheElements) :
          [k \in 1..Cardinality(PositionsOf(i)) |->
              TheBuilt.requests[k + Cardinality({j \in 1..Len(TheBuilt.origin) :
                                                    TheBuilt.origin[j] < i})]]
             = ElementRequests(TheElements[i])

\* a style operation has the break of its paragraph right before it
BreakBeforeStyle ==
    \A k \in 1..Len(TheBuilt.requests) :
        IsStyle(TheBuilt.requests[k])
           => /\ k > 1
              /\ IsBreak(TheBuilt.requests[k - 1])
              /\ TheBuilt.origin[k - 1] = TheBuilt.origin[k]

\* the text of a paragraph comes before the break of that paragraph: no text
\* follows the last break of the element
TextBeforeBreak ==
    \A i \in 1..Len(TheElements) :
        TheElements[i].kind = "Paragraph"
           => \A k \in PositionsOf(i), j \in PositionsOf(i) :
                 (IsText(TheBuilt.requests[k]) /\ IsBreak(TheBuilt.requests[j])) => k < j

\* C23: build_requests emits the operations of the elements in the order the
\* elements were added, and each paragraph's operations are in the order of the
\* batch builder's insert_paragraph: the text, then the break, then the style
C23_AddedOrderTextBreakStyle ==
    JustBuilt => (ElementsInAddedOrder /\ BreakBeforeStyle /\ TextBeforeBreak)

\* what holds: the added order, and the break before the style
C23_AddedOrderBreakBeforeStyle ==
    JustBuilt => (ElementsInAddedOrder /\ BreakBeforeStyle)

(***************************************************************************)
(* Claims about DocumentParser (specification SpecParser)                  *)
(***************************************************************************)
\* every text run of a document tree in document order, those of the paragraphs
\* of table cells included
RECURSIVE AllRunsOf(_)
RECURSIVE RunsOfRows(_)
RECURSIVE RunsOfCells(_)
AllRunsOf(content) ==
    IF content = <<>> THEN <<>>
    ELSE (IF Head(content).kind = "paragraph" THEN Head(content).elements
          ELSE RunsOfRows(Head(content).tableRows))
         \o AllRunsOf(Tail(content))

RunsOfRows(table_rows) ==
    IF table_rows = <<>> THEN <<>>
    ELSE RunsOfCells(Head(table_rows).tableCells) \o RunsOfRows(Tail(table_rows))

RunsOfCells(table_cells) ==
    IF table_cells = <<>> THEN <<>>
    ELSE AllRunsOf(Head(table_cells).content) \o RunsOfCells(Tail(table_cells))

Extracted == call.fn = "extract_text_content" /\ Called
Searched == call.fn = "find_text_ranges" /\ Called

HasTable(document) == \E i \in 1..Len(document.content) : document.content[i].kind = "table"

\* C24: extract_text_content returns the contents of all the text runs of the
\* document tree, joined in document order, the runs inside table cells included
C24_TextOfEveryRun ==
    Extracted => result.value = JoinContents(AllRunsOf(call.document.content))

\* the same for the documents that have no table
C24_HoldsWithoutTables ==
    (Extracted /\ ~HasTable(call.document))
       => result.value = JoinContents(AllRunsOf(call.document.content))

TheRanges == result.value

\* the occurrences of the search text that lie inside one run of runs: <<i, pos>>
\* for a match at position pos (0-based) of the i-th run
OccurrencesIn(runs, search_text) ==
    UNION {{<<i, pos>> : pos \in {p \in 0..(Len(runs[i].content) - Len(search_text)) :
                                     SubSeq(runs[i].content, p + 1, p + Len(search_text))
                                        = search_text}} :
              i \in 1..Len(runs)}

\* the ranges are as long as the search text and are as many as the occurrences
OneRangePerOccurrence(runs) ==
    /\ \A k \in 1..Len(TheRanges) :
          TheRanges[k].end_index - TheRanges[k].start_index = Len(call.search_text)
    /\ Len(TheRanges) = Cardinality(OccurrencesIn(runs, call.search_text))

\* C25: find_text_ranges returns one range of length len(search_text) for every
\* occurrence of the search text that lies wholly inside one text run of the
\* document, overlapping occurrences included, and none for a text that occurs
\* only across two runs
C25_OneRangePerSingleRunOccurrence ==
    Searched => OneRangePerOccurrence(AllRunsOf(call.document.content))

\* the same over the runs of the body's paragraphs, which are the runs the walk
\* visits: the ranges are those runs' occurrences in order
C25_HoldsForBodyRuns ==
    Searched =>
        LET runs == RunsOf(call.document.content)
        IN /\ OneRangePerOccurrence(runs)
           /\ \A k \in 1..Len(TheRanges) :
                 <<TheRanges[k].run, TheRanges[k].pos>>
                    \in OccurrencesIn(runs, call.search_text)
           /\ \A k \in 1..(Len(TheRanges) - 1) :
                 \/ TheRanges[k].run < TheRanges[k + 1].run
                 \/ /\ TheRanges[k].run = TheRanges[k + 1].run
                    /\ TheRanges[k].pos < TheRanges[k + 1].pos

\* C29: every range find_text_ranges returns starts at the reported startIndex of
\* the run that holds the match plus the position of the match in the run, and
\* ends the length of the search text later, whatever comes before that run
C29_RangesAreDocumentOffsets ==
    Searched =>
        \A k \in 1..Len(TheRanges) :
            LET run == RunsOf(call.document.content)[TheRanges[k].run]
            IN /\ TheRanges[k].start_index = run.startIndex + TheRanges[k].pos
               /\ TheRanges[k].end_index
                     = TheRanges[k].start_index + Utf16Len(call.search_text)

OnlyBmpParagraphs(document) ==
    /\ ~HasTable(document)
    /\ \A i \in 1..Len(document.content) :
          \A j \in 1..Len(document.content[i].elements) :
              ~Contains(document.content[i].elements[j].content, <<"W">>)

\* the same for the documents of paragraphs of characters of one code unit
C29_HoldsForBmpParagraphs ==
    OnlyBmpParagraphs(call.document) => C29_RangesAreDocumentOffsets

(***************************************************************************)
(* Claims about retry_on_error (specifications SpecRetry, SpecRetryFair)   *)
(***************************************************************************)
Locals == result.value

RetryDone == result.status \in {"returned", "raised"}

\* func was called again after an error of the permission or not-found class
RetriedAfterNoRetryClass ==
    /\ Locals.retried_after # NoError
    /\ is_permission_error(Locals.retried_after) \/ is_not_found_error(Locals.retried_after)

\* the sleep after a quota error of the attempt-th call of func (1-based)
QuotaDelayIsBackoff ==
    (result.status = "running" /\ Locals.last_error # NoError
        /\ is_quota_exceeded_error(Locals.last_error))
       => Locals.delay = Min(BaseDelay * (2 ^ (Locals.invocations - 1)), MaxDelay)

\* C26: retry_on_error never calls func again after an error of the permission
\* or not-found class, whatever else the message of the error contains, and
\* after a quota error of the n-th call it sleeps min(base * 2^(n-1), 60 s)
C26_NoRetryAfterPermissionOrNotFound ==
    ~RetriedAfterNoRetryClass /\ QuotaDelayIsBackoff

\* the same for the errors whose message has no quota phrase
C26_HoldsWithoutQuotaWords ==
    /\ (Locals.retried_after # NoError /\ ~is_quota_exceeded_error(Locals.retried_after))
          => ~RetriedAfterNoRetryClass
    /\ QuotaDelayIsBackoff

\* func is called max_retries + 1 times at most; what is returned is what the
\* last call of func returned, and what is raised is the error of the last call
RetryBounded ==
    call.max_retries >= 0 =>
        /\ Locals.invocations <= call.max_retries + 1
        /\ result.status = "returned"
              => (Locals.outcome.ok /\ Locals.outcome.id = Locals.invocations)
        /\ result.status = "raised"
              => /\ ~Locals.outcome.ok
                 /\ Locals.invocations >= 1
                 /\ Locals.outcome.id = Locals.invocations

\* C27: for every max_retries >= 0 retry_on_error ends, after max_retries + 1
\* calls of func at most: it returns the first success without calling func again,
\* and otherwise raises the error of the last call
C27_RetryTerminates ==
    /\ []RetryBounded
    /\ <>RetryDone
    /\ [][RetryDone => UNCHANGED vars]_vars

\* all the calls of func failed, the first error retried and the last one raised
C27_Witness ==
    /\ result.status = "raised"
    /\ call.max_retries >= 1
    /\ Locals.invocations = call.max_retries + 1

(***************************************************************************)
(* Claims about the table a call populates (specification SpecTable)       *)
(***************************************************************************)
\* the table the call inserted is the one the documents report at
\* ReportedTableStart; a table reported after it was there before the call
OwnTableStart == ReportedTableStart

\* C28: the table insert_table_from_dataframe populates is the table it has just
\* inserted, never a table the document had before the call
C28_PopulatesOwnTable ==
    (call.fn = "insert" /\ Pop.located) => Pop.table_start_index = OwnTableStart

\* the same for a table appended at the end of the document
C28_HoldsForAppendedTable ==
    (call.fn = "insert" /\ call.index = NoIndex /\ Pop.located)
       => Pop.table_start_index = OwnTableStart

\* the deleteContentRange requests the call sent
DeletesSent ==
    {r \in UNION {Range(result.calls[i].requests) : i \in 1..Len(result.calls)} :
        r.op = "deleteContentRange"}

\* the ranges of code units the placeholder takes in the runs of a document
PlaceholderRanges(document, placeholder) ==
    LET runs == RunsOf(document.content)
    IN UNION {{[startIndex |-> runs[i].startIndex + Utf16Len(SubSeq(runs[i].content, 1, k - 1)),
                endIndex |-> runs[i].startIndex + Utf16Len(SubSeq(runs[i].content, 1, k - 1))
                                + Utf16Len(placeholder)] :
                 k \in {j \in 1..(Len(runs[i].content) - Len(placeholder) + 1) :
                           SubSeq(runs[i].content, j, j + Len(placeholder) - 1) = placeholder}} :
              i \in 1..Len(runs)}

\* no placeholder found: no update is sent and the empty result is returned
NotFoundSendsNothing ==
    (call.fn = "replace" /\ result.status = "returned" /\ DeletesSent = {})
       => (result.value = "{}" /\ result.calls = <<GetCall>>)

\* C30: the deleteContentRange of replace_text_with_table_from_dataframe covers
\* the code units of the placeholder in its run and no other character of the
\* run, and when the placeholder is not found the call sends no update and
\* returns the empty result
C30_DeletesOnlyThePlaceholder ==
    /\ call.fn = "replace" =>
          \A r \in DeletesSent :
              \E document \in PlaceholderDocs :
                  [startIndex |-> r.startIndex, endIndex |-> r.endIndex]
                     \in PlaceholderRanges(document, call.placeholder)
    /\ NotFoundSendsNothing

\* what holds: the range deleted is that of a whole run that holds the
\* placeholder, and the part about the placeholder that is not found
C30_DeletesTheWholeRun ==
    /\ call.fn = "replace" =>
          \A r \in DeletesSent :
              \E document \in PlaceholderDocs :
                  \E i \in 1..Len(RunsOf(document.content)) :
                      /\ Contains(RunsOf(document.content)[i].content, call.placeholder)
                      /\ r.startIndex = RunsOf(document.content)[i].startIndex
                      /\ r.endIndex = RunsOf(document.content)[i].endIndex
    /\ NotFoundSendsNothing

====
